---------------------------- MODULE Spec2Model ----------------------------
(***************************************************************************)
(* Halo finding and halo properties of yt                                  *)
(* (yt/analysis_modules/halo_finding/halo_objects.py).                     *)
(*                                                                         *)
(* The module holds several state machines over one set of variables; a    *)
(* specification runs one of them and leaves the variables of the others   *)
(* at their idle values.                                                   *)
(*                                                                         *)
(*   SpecMerge  GenericHaloFinder._parse_halolist / _join_halolists (HOP,  *)
(*              FOF) and parallelHOPHaloList._parse_output /               *)
(*              parallelHF._join_halolists (parallel HOP).                 *)
(*   SpecCalls  the collective calls of the parallelHOPHalo properties.    *)
(*   SpecProps  the values of the Halo and parallelHOPHalo properties.     *)
(*   SpecExit   the particle index test of parallelHOPHaloList._run_finder.*)
(*   SpecPad    the per-face padding of parallelHF.__init__.               *)
(*   SpecVirial the virial quantities of Halo and parallelHOPHalo.         *)
(*   SpecDivide parallelHF._recursive_divide.                              *)
(*   SpecPolicy the padding policy of parallelHF.__init__.                 *)
(*   SpecDump   GenericHaloFinder.dump and LoadHaloes.                     *)
(*   SpecField  LoadedHalo.__getitem__.                                    *)
(*   SpecList   HaloList._parse_output.                                    *)
(*   SpecPeak   parallelHOPHalo.maximum_density / maximum_density_location *)
(*              of a halo without a precomputed peak.                      *)
(***************************************************************************)
EXTENDS Integers, Sequences, FiniteSets, TLC

VARIABLES
    \* ---- distributed merge -------------------------------------------
    finder,                 \* "HOP" (HOPHaloFinder) or "parallelHOP" (parallelHF)
    cutdim,                 \* the dimension along which the domain is cut into boxes
    catalog,                \* the halos of the dataset, as the clusterer finds them
    threshold_adjustment,   \* total_mass / sub_mass handed to _parse_halolist
    clusterer_threshold,    \* the threshold handed to HOPHaloList.__init__
    groups,                 \* self._groups of each worker
    max_dens,               \* self._max_dens of each worker
    halo_max_dens,          \* the table that halo._max_dens of its halos refers to
    halo_info,              \* what each worker fed to _mpi_info_dict
    my_first_id,            \* the id offset each worker derived
    compared,               \* the comparisons of each worker's sort, in order
    pc,                     \* where each worker stands
    rank,                   \* parallel HOP: the rank of the worker followed
    group_count,            \* parallel HOP: obj.group_count
    Tot_M,                  \* parallel HOP: self.Tot_M (one entry per group)
    CoM,                    \* parallel HOP: self.CoM[:,0] (one entry per group)
    tags,                   \* parallel HOP: self.tags of each worker
    \* ---- collective calls of the halo properties ---------------------
    phalo,                  \* the parallelHOPHalo of one halo, on each worker
    op,                     \* the property operation the workers are in
    todo,                   \* the collective calls each worker has yet to issue
    issued,                 \* the collective calls each worker issued in op
    at,                     \* "idle", "running" or "blocked" (in a collective)
    \* ---- values of the halo properties ------------------------------
    particles,              \* the particles of one halo: mass, position, velocity
    where,                  \* the worker that holds each particle
    props,                  \* the last property computed: distributed and serial
    \* ---- particle index test ----------------------------------------
    particle_index,         \* particle_fields["particle_index"] of each worker
    exit,                   \* the flag each worker handed to _mpi_exit_test
    exit_tests,             \* how often each worker called _mpi_exit_test
    stage,                  \* where each worker stands in _run_finder
    \* ---- per-face padding -------------------------------------------
    counts,                 \* the histogram of each worker's particles
    padpc                   \* where each worker stands in parallelHF.__init__

VARIABLES
    \* ---- virial quantities ------------------------------------------
    vparticles,             \* the particles of one halo: mass, distance to the center
    vwhere,                 \* the worker that holds each of them
    vserial,                \* the Halo over all of them: what virial_info cached
    vpar,                   \* the parallelHOPHalo of each worker: what it cached
    vlast                   \* the last virial call and what it returned

VARIABLES
    root_points,            \* the sample points gathered on worker 0
    cut_list,               \* the (dimension, split count) pair of each level
    divide_stack,           \* the calls of _recursive_divide yet to run
    bucket_bounds,          \* the leaf boxes appended so far
    divide_status,          \* "running", "returned", "handed out", or the error raised
    divided,                \* the box, dimension and midpoints of the last call
    my_bounds               \* the leaf box of each worker

VARIABLES
    mpi_size,               \* the number of workers of the run
    fancy,                  \* the fancy_padding argument
    subvolume,              \* the subvolume argument, None or a region
    hist,                   \* the worker's particle counts along each dimension
    self_padding,           \* self.padding
    handed,                 \* the padding that parallelHOPHaloList.__init__ got
    policy_pc               \* where the worker is in __init__, or the error raised

VARIABLES
    dump_groups,            \* the halos of the list that is dumped
    dump_distributed,       \* self._distributed of the run that dumps
    creation_time,          \* whether the field list of the dataset holds creation_time
    out_file,               \* the lines of the summary file, None until written
    txt_file,               \* the lines of the index file, None until written
    h5_files,               \* the particle file of each worker, None until written
    loaded,                 \* the halos of the LoadedHaloList
    requested,              \* the last field asked of a loaded halo, and the answer
    dump_pc                 \* where the dump and the reload are

VARIABLES
    list_tags,              \* HaloList: self.tags, the group tag of each particle
    densities,              \* HaloList: self.densities
    particle_position_x,    \* HaloList: particle_fields["particle_position_x"]
    list_groups,            \* HaloList: self._groups
    list_max_dens,          \* HaloList: self._max_dens
    list_pc                 \* "off", "tagged" or "parsed"

VARIABLES
    local_max_dens,         \* self._max_dens[self.id] of one halo, on each worker
    returned,               \* what the call returned on each worker
    peak_pc                 \* "off", "ready", or the method that was called

mergeVars == <<finder, cutdim, catalog, threshold_adjustment,
               clusterer_threshold, groups, max_dens, halo_max_dens,
               halo_info, my_first_id, compared, pc, rank, group_count, Tot_M, CoM, tags>>

callVars == <<phalo, op, todo, issued, at>>
propVars == <<particles, where, props>>
exitVars == <<particle_index, exit, exit_tests, stage>>
padVars == <<counts, padpc>>
virialVars == <<vparticles, vwhere, vserial, vpar, vlast>>
divideVars == <<root_points, cut_list, divide_stack, bucket_bounds,
                divide_status, divided, my_bounds>>
policyVars == <<mpi_size, fancy, subvolume, hist, self_padding, handed,
                policy_pc>>
dumpVars == <<dump_groups, dump_distributed, creation_time, out_file, txt_file, h5_files,
              loaded, requested, dump_pc>>
listVars == <<list_tags, densities, particle_position_x, list_groups,
              list_max_dens, list_pc>>
peakVars == <<local_max_dens, returned, peak_pc>>
laterVars == <<virialVars, divideVars, policyVars, dumpVars, listVars,
               peakVars>>
earlyVars == <<mergeVars, callVars, propVars, exitVars, padVars>>
notVirialVars == <<peakVars, earlyVars, divideVars, policyVars, dumpVars, listVars>>
notDivideVars == <<peakVars, earlyVars, virialVars, policyVars, dumpVars, listVars>>
notPolicyVars == <<peakVars, earlyVars, virialVars, divideVars, dumpVars, listVars>>
notDumpVars == <<peakVars, earlyVars, virialVars, divideVars, policyVars, listVars>>
notListVars == <<earlyVars, virialVars, divideVars, policyVars, dumpVars,
                 peakVars>>
notPeakVars == <<earlyVars, virialVars, divideVars, policyVars, dumpVars,
                 listVars>>
nonMergeVars == <<callVars, propVars, exitVars, padVars, laterVars>>

vars == <<mergeVars, callVars, propVars, exitVars, padVars, laterVars>>

\* Python's None, and a value that is not None.
None == <<>>
Some(x) == <<x>>

(***************************************************************************)
(* Bounds of the model.                                                    *)
(***************************************************************************)
NumWorkers == 2
MaxHalos == 2

Procs == 0..(NumWorkers - 1)
Dims == 1..3
Masses == {1, 2}

(***************************************************************************)
(* The values the variables of a state machine hold while another one      *)
(* runs.                                                                   *)
(***************************************************************************)
IdleMerge ==
    /\ finder = "none"
    /\ cutdim = 1
    /\ catalog = <<>>
    /\ threshold_adjustment = [r \in Procs |-> 1]
    /\ clusterer_threshold = [r \in Procs |-> None]
    /\ groups = [r \in Procs |-> <<>>]
    /\ max_dens = [r \in Procs |-> <<>>]
    /\ halo_max_dens = [r \in Procs |-> <<>>]
    /\ halo_info = [r \in Procs |-> None]
    /\ my_first_id = [r \in Procs |-> None]
    /\ compared = [r \in Procs |-> <<>>]
    /\ pc = [r \in Procs |-> "idle"]
    /\ rank = 0
    /\ group_count = 0
    /\ Tot_M = <<>>
    /\ CoM = <<>>
    /\ tags = [r \in Procs |-> None]

IdleCalls ==
    /\ phalo = [r \in Procs |-> None]
    /\ op = None
    /\ todo = [r \in Procs |-> <<>>]
    /\ issued = [r \in Procs |-> <<>>]
    /\ at = [r \in Procs |-> "off"]

IdleProps ==
    /\ particles = <<>>
    /\ where = <<>>
    /\ props = None

IdleExit ==
    /\ particle_index = [r \in Procs |-> <<>>]
    /\ exit = [r \in Procs |-> None]
    /\ exit_tests = [r \in Procs |-> 0]
    /\ stage = [r \in Procs |-> "off"]

IdlePad ==
    /\ counts = [r \in Procs |-> <<>>]
    /\ padpc = [r \in Procs |-> "off"]

IdleVirial ==
    /\ vparticles = <<>>
    /\ vwhere = <<>>
    /\ vserial = None
    /\ vpar = <<>>
    /\ vlast = None

IdleDivide ==
    /\ root_points = <<>>
    /\ cut_list = <<>>
    /\ divide_stack = <<>>
    /\ bucket_bounds = <<>>
    /\ divide_status = "off"
    /\ divided = None
    /\ my_bounds = <<>>

IdlePolicy ==
    /\ mpi_size = 1
    /\ fancy = FALSE
    /\ subvolume = None
    /\ hist = <<>>
    /\ self_padding = None
    /\ handed = None
    /\ policy_pc = "off"

IdleDump ==
    /\ dump_groups = <<>>
    /\ dump_distributed = FALSE
    /\ creation_time = FALSE
    /\ out_file = None
    /\ txt_file = None
    /\ h5_files = None
    /\ loaded = <<>>
    /\ requested = None
    /\ dump_pc = "off"

IdleList ==
    /\ list_tags = <<>>
    /\ densities = <<>>
    /\ particle_position_x = <<>>
    /\ list_groups = <<>>
    /\ list_max_dens = <<>>
    /\ list_pc = "off"

IdlePeak ==
    /\ local_max_dens = <<>>
    /\ returned = <<>>
    /\ peak_pc = "off"

IdleLater ==
    IdleVirial /\ IdleDivide /\ IdlePolicy /\ IdleDump /\ IdleList /\ IdlePeak

RECURSIVE SumSeq(_)
SumSeq(s) == IF s = <<>> THEN 0 ELSE Head(s) + SumSeq(Tail(s))

Cmp(a, b) == IF a < b THEN -1 ELSE IF a > b THEN 1 ELSE 0

(***************************************************************************)
(* The domain and its partition.  Worker r owns the box [2r, 2r+2] along   *)
(* cutdim and the whole domain [0, 2*NumWorkers] along the other two       *)
(* dimensions: the boxes tile the domain and neighbours share a face.      *)
(* Particle positions lie in [0, 2*NumWorkers).                            *)
(***************************************************************************)
DomainWidth == 2 * NumWorkers
Coords == 0..(DomainWidth - 1)
padding == 1

BoxLE(r) == [d \in Dims |-> IF d = cutdim THEN 2 * r ELSE 0]
BoxRE(r) == [d \in Dims |-> IF d = cutdim THEN 2 * r + 2 ELSE DomainWidth]

\* The halos a dataset may hold: the location of the density peak, the total
\* mass and the peak density.  The peak lies anywhere along cutdim (inside a
\* box or on a face shared by two boxes).
PeakAt(x) == [d \in Dims |-> IF d = cutdim THEN x ELSE 1]
HaloKinds == [x : Coords, mass : Masses]
Peak(k) == PeakAt(catalog[k].x)
PeakDensity(k) == 4 * catalog[k].mass
\* center_of_mass()[0] of catalog halo k
CoMx(k) == Peak(k)[1]

\* The padded region of worker r holds the particles within padding of its
\* box, periodic images included; the clusterer finds in it every halo whose
\* peak lies there.
InPadded(r, p) ==
    \A d \in Dims :
        \E s \in {-DomainWidth, 0, DomainWidth} :
            /\ BoxLE(r)[d] - padding <= p[d] + s
            /\ p[d] + s <= BoxRE(r)[d] + padding

RECURSIVE VisibleFrom(_, _)
VisibleFrom(r, k) ==
    IF k > Len(catalog) THEN <<>>
    ELSE (IF InPadded(r, Peak(k)) THEN <<k>> ELSE <<>>) \o VisibleFrom(r, k + 1)

\* HOPHaloList: self._groups and self._max_dens after _parse_output, one halo
\* per tag, ids 0.. in tag order; indices names the members (those of catalog
\* halo k).
\* Halo.__init__ with its defaults; _owner and _distributed are the class
\* attributes.
NewHalo(id, indices) ==
    [id |-> id, indices |-> indices, owner |-> 0, distributed |-> FALSE,
     size |-> None, CoM |-> None, max_dens_point |-> None,
     group_total_mass |-> None, max_radius |-> None, bulk_vel |-> None,
     tasks |-> None, rms_vel |-> None, bin_count |-> None,
     overdensity |-> None]

FoundGroups(r) ==
    LET vis == VisibleFrom(r, 1)
    IN  [i \in 1..Len(vis) |-> NewHalo(i - 1, Some(vis[i]))]

FoundMaxDens(r) ==
    LET vis == VisibleFrom(r, 1)
    IN  [i \in 0..(Len(vis) - 1) |->
            <<PeakDensity(vis[i + 1])>> \o
            [d \in Dims |-> Peak(vis[i + 1])[d]]]


(***************************************************************************)
(* Halo.maximum_density_location: the peak recorded under the halo's id.   *)
(***************************************************************************)
maximum_density_location(table, halo) ==
    [d \in Dims |-> table[halo.id][d + 1]]

\* ParallelAnalysisInterface: whether the run is distributed, and the
\* ownership marks.
Distributed == NumWorkers > 1

claim_object(r, halo) ==
    IF Distributed THEN [halo EXCEPT !.owner = r, !.distributed = TRUE]
    ELSE halo

(***************************************************************************)
(* GenericHaloFinder._parse_halolist: keep the halos whose peak lies in    *)
(* the worker's box, renumber them 0.. and rescale the peak density.       *)
(***************************************************************************)
\* (mutant) the right bound of the box is not part of it
PeakInBox_half_open(r, this_max_dens) ==
    \A d \in Dims :
        /\ this_max_dens[d] >= BoxLE(r)[d]
        /\ this_max_dens[d] < BoxRE(r)[d]

\* if na.all((this_max_dens >= LE) & (this_max_dens <= RE)):
PeakInBox(r, this_max_dens) ==
    \A d \in Dims :
        /\ this_max_dens[d] >= BoxLE(r)[d]
        /\ this_max_dens[d] <= BoxRE(r)[d]

RECURSIVE ParseFrom(_, _, _, _)
ParseFrom(r, i, kept, md) ==
    IF i > Len(groups[r]) THEN [groups |-> kept, max_dens |-> md]
    ELSE
        LET halo == groups[r][i]
            this_max_dens == maximum_density_location(max_dens[r], halo)
            hi == Len(kept)
            max_dens_temp == max_dens[r][halo.id][1] \div threshold_adjustment[r]
            entry == <<max_dens_temp>> \o
                     [d \in Dims |-> max_dens[r][halo.id][d + 1]]
        IN  IF PeakInBox(r, this_max_dens)
            THEN ParseFrom(r, i + 1,
                     Append(kept, claim_object(r, NewHalo(hi, halo.indices))),
                     (hi :> entry) @@ md)
            ELSE ParseFrom(r, i + 1, kept, md)

ParseHalolist(r) ==
    /\ finder = "HOP"
    /\ pc[r] = "found"
    /\ LET res == ParseFrom(r, 1, <<>>, <<>>)
       IN  /\ groups' = [groups EXCEPT ![r] = res.groups]
           /\ max_dens' = [max_dens EXCEPT ![r] = res.max_dens]
    \* groups.append(self._halo_class(self, hi)) comes before
    \* self._max_dens = max_dens: the halos refer to the table of the clusterer
    /\ pc' = [pc EXCEPT ![r] = "parsed"]
    /\ UNCHANGED nonMergeVars
    /\ UNCHANGED <<finder, cutdim, catalog, threshold_adjustment,
                   clusterer_threshold, halo_max_dens, halo_info,
                   my_first_id, rank, group_count, Tot_M, CoM, tags,
                   compared>>

(***************************************************************************)
(* GenericHaloFinder._join_halolists.                                      *)
(***************************************************************************)
\* mine, halo_info = self._mpi_info_dict(len(self)): the worker hands in its
\* count; the call returns once every worker has handed in its own.
JoinInfoDict(r) ==
    /\ finder = "HOP"
    /\ pc[r] = "parsed"
    /\ halo_info' = [halo_info EXCEPT ![r] = Some(Len(groups[r]))]
    /\ pc' = [pc EXCEPT ![r] = "info"]
    /\ UNCHANGED nonMergeVars
    /\ UNCHANGED <<finder, cutdim, catalog, threshold_adjustment,
                   clusterer_threshold, halo_max_dens, groups,
                   max_dens, my_first_id, rank, group_count, Tot_M, CoM, tags,
                   compared>>

InfoDictComplete == \A p \in Procs : halo_info[p] # None

RECURSIVE SumInfo(_)
SumInfo(P) ==
    IF P = {} THEN 0
    ELSE LET p == CHOOSE q \in P : TRUE IN halo_info[p][1] + SumInfo(P \ {p})

nhalos == SumInfo(Procs)
\* (mutant) the offset counts the worker's own halos too
FirstId_through(proc) == SumInfo({k \in Procs : k <= proc})

\* my_first_id = sum([v for k,v in halo_info.items() if k < mine])
FirstId(proc) == SumInfo({k \in Procs : k < proc})

\* for proc in sorted(halo_info.keys()):
\*     for halo in self._groups[id:id+halo_info[proc][1]]: ...
RECURSIVE AssignIds(_, _, _)
AssignIds(list, proc, id) ==
    IF proc \notin Procs THEN list
    ELSE
        LET hi == IF id + halo_info[proc][1] < Len(list)
                  THEN id + halo_info[proc][1] ELSE Len(list)
            marked == [p \in 1..Len(list) |->
                        IF p - 1 >= id /\ p - 1 < hi
                        THEN [list[p] EXCEPT !.id = p - 1,
                                             !.distributed = Distributed,
                                             !.owner = proc]
                        ELSE list[p]]
        IN  AssignIds(marked, proc + 1, IF hi > id THEN hi ELSE id)

\* (mutant) "one single fake halo, not owned": one placeholder per gap
GhostHalosOne(lo, hi) == [i \in 1..(IF hi > lo THEN 1 ELSE 0) |->
                            NewHalo(lo + i - 1, None)]

GhostHalos(lo, hi) == [i \in 1..(IF hi > lo THEN hi - lo ELSE 0) |->
                          NewHalo(lo + i - 1, None)]

Assembled(r) ==
    LET first == FirstId(r)
        after == first + Len(groups[r])
    IN  AssignIds(GhostHalos(0, first) \o groups[r] \o GhostHalos(after, nhalos),
                  0, 0)

ShiftedMaxDens(r) ==
    [i \in {j + FirstId(r) : j \in DOMAIN max_dens[r]} |->
        max_dens[r][i - FirstId(r)]]

JoinAssemble(r) ==
    /\ finder = "HOP"
    /\ pc[r] = "info"
    /\ InfoDictComplete
    /\ my_first_id' = [my_first_id EXCEPT ![r] = FirstId(r)]
    /\ max_dens' = [max_dens EXCEPT ![r] = ShiftedMaxDens(r)]
    \* for halo in self._groups: halo._max_dens = self._max_dens
    /\ halo_max_dens' = [halo_max_dens EXCEPT ![r] = ShiftedMaxDens(r)]
    /\ groups' = [groups EXCEPT ![r] = Assembled(r)]
    /\ pc' = [pc EXCEPT ![r] = "assembled"]
    /\ UNCHANGED nonMergeVars
    /\ UNCHANGED <<finder, cutdim, catalog, threshold_adjustment,
                   clusterer_threshold, halo_info,
                   rank, group_count, Tot_M, CoM, tags,
                   compared>>

(***************************************************************************)
(* The sort of _join_halolists.  total_mass() and center_of_mass() of a    *)
(* halo another worker owns are answered by its owner (ParallelDummy), so  *)
(* every worker compares the same values; the workers sort in step.        *)
(***************************************************************************)
OwnersHalo(halo) ==
    IF halo.indices # None THEN halo ELSE groups[halo.owner][halo.id + 1]

\* The halo that answers for list position i of worker r: the worker's own
\* entry, or the entry at the same position of the list of its owner.
HaloAt(r, i) ==
    IF groups[r][i].indices # None THEN groups[r][i]
    ELSE groups[groups[r][i].owner][i]

\* (mutant) every worker answers from its own entry; a placeholder holds no mass
total_mass_unwrapped(halo) ==
    IF halo.indices # None THEN catalog[halo.indices[1]].mass ELSE 0

total_mass(halo) == catalog[OwnersHalo(halo).indices[1]].mass
center_of_mass_x(halo) == CoMx(OwnersHalo(halo).indices[1])

\* (mutant) the mass order not reversed
haloCmpAscending(h1, h2) ==
    LET c == Cmp(total_mass(h1), total_mass(h2))
    IN  IF c # 0 THEN c
        ELSE Cmp(center_of_mass_x(h1), center_of_mass_x(h2))

haloCmp(h1, h2) ==
    LET c == Cmp(total_mass(h1), total_mass(h2))
    IN  IF c # 0 THEN -1 * c
        ELSE Cmp(center_of_mass_x(h1), center_of_mass_x(h2))

\* list.sort(haloCmp): a stable sort.
RECURSIVE InsertHalo(_, _)
InsertHalo(s, h) ==
    IF s = <<>> THEN <<h>>
    ELSE IF haloCmp(s[Len(s)], h) <= 0 THEN Append(s, h)
    ELSE Append(InsertHalo(SubSeq(s, 1, Len(s) - 1), h), s[Len(s)])

RECURSIVE SortHalos(_, _)
SortHalos(list, n) ==
    IF n = 0 THEN <<>> ELSE InsertHalo(SortHalos(list, n - 1), list[n])

\* One call of haloCmp: the ids of the two halos and the methods it called
\* on them, each a collective that the owner of the halo answers.
Comparison(h1, h2) ==
    [ids |-> <<h1.id, h2.id>>,
     calls |-> IF Cmp(total_mass(h1), total_mass(h2)) # 0
               THEN <<"total_mass", "total_mass">>
               ELSE <<"total_mass", "total_mass",
                      "center_of_mass", "center_of_mass">>,
     result |-> haloCmp(h1, h2)]

\* the comparisons that InsertHalo and SortHalos make, in order
RECURSIVE InsertCompared(_, _)
InsertCompared(s, h) ==
    IF s = <<>> THEN <<>>
    ELSE <<Comparison(s[Len(s)], h)>> \o
         (IF haloCmp(s[Len(s)], h) <= 0 THEN <<>>
          ELSE InsertCompared(SubSeq(s, 1, Len(s) - 1), h))

RECURSIVE SortCompared(_, _)
SortCompared(list, n) ==
    IF n = 0 THEN <<>>
    ELSE SortCompared(list, n - 1) \o
         InsertCompared(SortHalos(list, n - 1), list[n])

Renumbered(list) == [i \in 1..Len(list) |-> [list[i] EXCEPT !.id = i - 1]]

SortedMaxDens(list, table) ==
    [i \in {j \in 0..(Len(list) - 1) : list[j + 1].id \in DOMAIN table} |->
        table[list[i + 1].id]]

JoinSort ==
    /\ finder = "HOP"
    /\ \A p \in Procs : pc[p] = "assembled"
    /\ groups' = [p \in Procs |->
                    Renumbered(SortHalos(groups[p], Len(groups[p])))]
    /\ max_dens' = [p \in Procs |->
                    SortedMaxDens(SortHalos(groups[p], Len(groups[p])),
                                  max_dens[p])]
    \* for i, halo in enumerate(self._groups): halo._max_dens = self._max_dens
    /\ halo_max_dens' = max_dens'
    /\ compared' = [p \in Procs |->
                    SortCompared(groups[p], Len(groups[p]))]
    /\ pc' = [p \in Procs |-> "joined"]
    /\ UNCHANGED nonMergeVars
    /\ UNCHANGED <<finder, cutdim, catalog, threshold_adjustment,
                   clusterer_threshold, halo_info,
                   my_first_id, rank, group_count, Tot_M, CoM, tags>>


(***************************************************************************)
(* Parallel HOP.  ParallelHOPHaloFinder hands every worker the globally    *)
(* reduced statistics of the group_count groups and the tags of its own    *)
(* particles.  _parse_output and parallelHF._join_halolists read nothing   *)
(* of another worker, so one worker, of any rank, is followed.             *)
(***************************************************************************)
MaxTags == 2

Groups == 0..(group_count - 1)
group_sizes(g) == <<"size", g>>
CoMRow(g) == <<CoM[g + 1], g, g>>
max_dens_point(g) == <<10 + g, g, g, g>>
max_radius(g) == <<"max_radius", g>>
bulk_vel(g) == <<"bulk_vel", g>>
rms_vel(g) == <<"rms_vel", g>>
halo_taskmap(g) == <<"tasks", g>>

\* numpy: a negative index counts from the end of the array.
Row(i) == IF i < 0 THEN group_count + i ELSE i

do_not_claim_object(halo) ==
    IF Distributed THEN [halo EXCEPT !.owner = -1, !.distributed = TRUE]
    ELSE halo

\* na.unique: the distinct values, ascending.
RECURSIVE SortedSeq(_)
SortedSeq(S) ==
    IF S = {} THEN <<>>
    ELSE LET m == CHOOSE x \in S : \A y \in S : x <= y
         IN  <<m>> \o SortedSeq(S \ {m})

unique(t) == SortedSeq({t[p] : p \in DOMAIN t})
\* na.bincount(t + 1)[v]
bincount1(t, v) == Cardinality({p \in DOMAIN t : t[p] + 1 = v})

\* na.argsort: the positions ordered by their value.
RECURSIVE ArgSortBy(_, _)
ArgSortBy(t, vals) ==
    IF vals = <<>> THEN <<>>
    ELSE SortedSeq({p \in DOMAIN t : t[p] = Head(vals)}) \o
         ArgSortBy(t, Tail(vals))

argsort(t) == ArgSortBy(t, unique(t))

\* self._halo_class(self, id, indices, size=..., ...) of _parse_output
StatHalo(id, indices, g, mdp, task) ==
    [NewHalo(id, indices) EXCEPT
        !.size = Some(group_sizes(g)),
        !.CoM = Some(CoMRow(g)),
        !.max_dens_point = Some(max_dens_point(Row(mdp))),
        !.group_total_mass = Some(Tot_M[g + 1]),
        !.max_radius = Some(max_radius(g)),
        !.bulk_vel = Some(bulk_vel(g)),
        !.tasks = Some(halo_taskmap(task)),
        !.rms_vel = Some(rms_vel(g))]

\* while index < i: an empty group for every id the worker holds nothing of
RECURSIVE FillGap(_, _)
FillGap(gs, i) ==
    LET index == Len(gs)
    IN  IF index < i
        THEN FillGap(Append(gs, do_not_claim_object(
                         StatHalo(index, None, index, index, index))), i)
        ELSE gs

\* while index < self.group_count: the groups after the last local id; the
\* peak is read at i, the last id of the loop above.
RECURSIVE FillEnd(_, _)
FillEnd(gs, i) ==
    LET index == Len(gs)
    IN  IF index < group_count
        THEN FillEnd(Append(gs, do_not_claim_object(
                         StatHalo(index, None, index, i, index))), i)
        ELSE gs

RECURSIVE ParseIds(_, _, _, _, _)
ParseIds(r, t, ids, cp, gs) ==
    IF ids = <<>> THEN gs
    ELSE
        LET i == Head(ids)
            cp_c == cp + bincount1(t, i + 1)
        IN  IF i = -1 THEN ParseIds(r, t, Tail(ids), cp_c, gs)
            ELSE
                LET filled == FillGap(gs, i)
                    index == Len(filled)
                    grab_indices == argsort(t)
                    group_indices == {grab_indices[j] : j \in (cp + 1)..cp_c}
                    own == claim_object(r,
                               StatHalo(i, Some(group_indices), i, i, index))
                IN  ParseIds(r, t, Tail(ids), cp_c, Append(filled, own))

\* self._max_dens[index] = the peak of group index, on every path
MaxDensRows == [g \in Groups |-> max_dens_point(g)]

parse_output(r, t) ==
    LET unique_ids == unique(t)
    IN  IF group_count = 0
        THEN [status |-> "returned", groups |-> <<>>, max_dens |-> <<>>]
        ELSE IF unique_ids = <<>>
        THEN [status |-> "UnboundLocalError", groups |-> <<>>,
              max_dens |-> <<>>]
        ELSE [status |-> "parsed",
              groups |-> FillEnd(ParseIds(r, t, unique_ids, 0, <<>>),
                                 unique_ids[Len(unique_ids)]),
              max_dens |-> MaxDensRows]

ParseOutput(r) ==
    /\ finder = "parallelHOP"
    /\ r = rank
    /\ pc[r] = "found"
    /\ LET res == parse_output(r, tags[r][1])
       IN  /\ groups' = [groups EXCEPT ![r] = res.groups]
           /\ max_dens' = [max_dens EXCEPT ![r] = res.max_dens]
           \* Halo.__init__: self._max_dens = halo_list._max_dens, the array
           \* that _parse_output fills
           /\ halo_max_dens' = [halo_max_dens EXCEPT ![r] = res.max_dens]
           /\ pc' = [pc EXCEPT ![r] = res.status]
    \* (del self.tags: the tags are kept here, for the properties to read)
    /\ UNCHANGED nonMergeVars
    /\ UNCHANGED <<finder, cutdim, catalog, threshold_adjustment,
                   clusterer_threshold, halo_info,
                   my_first_id, rank, group_count, Tot_M, CoM, tags,
                   compared>>

(***************************************************************************)
(* parallelHF._join_halolists: order by na.lexsort([Cx, ms]), renumber.    *)
(***************************************************************************)
lexCmp(a, b) ==
    LET ms(g) == -Tot_M[g + 1]
        Cx(g) == CoM[g + 1]
    IN  IF ms(a) # ms(b) THEN Cmp(ms(a), ms(b)) ELSE Cmp(Cx(a), Cx(b))

RECURSIVE InsertLex(_, _)
InsertLex(s, g) ==
    IF s = <<>> THEN <<g>>
    ELSE IF lexCmp(s[Len(s)], g) <= 0 THEN Append(s, g)
    ELSE Append(InsertLex(SubSeq(s, 1, Len(s) - 1), g), s[Len(s)])

RECURSIVE lexsort(_)
lexsort(n) == IF n = 0 THEN <<>> ELSE InsertLex(lexsort(n - 1), n - 1)

JoinHalolistsParallel(r) ==
    /\ finder = "parallelHOP"
    /\ r = rank
    /\ pc[r] \in {"parsed", "returned"}
    /\ IF group_count = 0
       THEN UNCHANGED <<groups, max_dens>>
       ELSE LET sorted == lexsort(group_count)
            IN  /\ groups' = [groups EXCEPT ![r] =
                     Renumbered([i \in 1..group_count |->
                                    groups[r][sorted[i] + 1]])]
                /\ max_dens' = [max_dens EXCEPT ![r] =
                     [i \in Groups |-> max_dens[r][sorted[i + 1]]]]
    \* self._max_dens = self._max_dens[sorted] is a new array; the halos
    \* refer to the one they were made with
    /\ pc' = [pc EXCEPT ![r] = "joined"]
    /\ UNCHANGED nonMergeVars
    /\ UNCHANGED <<finder, cutdim, catalog, threshold_adjustment,
                   clusterer_threshold, halo_max_dens, halo_info,
                   my_first_id, rank, group_count, Tot_M, CoM, tags,
                   compared>>

(***************************************************************************)
(* The merge, from the state the clusterer leaves.                         *)
(***************************************************************************)
\* HOPHaloFinder.__init__: threshold=160
hop_threshold == 160

\* total_mass, the mass of the whole box, and sub_mass, the mass of the
\* padded region of a worker: all of it on every worker, or half of it on
\* worker 0
BoxMass == 4
SubMasses ==
    {[r \in Procs |-> BoxMass],
     [r \in Procs |-> IF r = 0 THEN BoxMass \div 2 ELSE BoxMass]}

\* HOPHaloList.__init__(self, self._data_source,
\*     threshold*total_mass/sub_mass, dm_only)
HOP_threshold(threshold, box_mass, sub_mass) ==
    (threshold * box_mass) \div sub_mass

SeqsUpTo(S, n) == UNION {[1..k -> S] : k \in 0..n}

InitHOP ==
    /\ finder = "HOP"
    /\ cutdim \in Dims
    /\ catalog \in SeqsUpTo(HaloKinds, MaxHalos)
    /\ \E sub_mass \in SubMasses :
           /\ threshold_adjustment =
                  [r \in Procs |-> BoxMass \div sub_mass[r]]
           /\ clusterer_threshold =
                  [r \in Procs |->
                      Some(HOP_threshold(hop_threshold, BoxMass, sub_mass[r]))]
    /\ groups = [r \in Procs |-> FoundGroups(r)]
    /\ max_dens = [r \in Procs |-> FoundMaxDens(r)]
    /\ halo_max_dens = max_dens
    /\ halo_info = [r \in Procs |-> None]
    /\ my_first_id = [r \in Procs |-> None]
    /\ compared = [r \in Procs |-> <<>>]
    /\ pc = [r \in Procs |-> "found"]
    /\ rank = 0
    /\ group_count = 0
    /\ Tot_M = <<>>
    /\ CoM = <<>>
    /\ tags = [r \in Procs |-> None]

InitParallelHOP ==
    /\ finder = "parallelHOP"
    /\ cutdim = 1
    /\ catalog = <<>>
    /\ threshold_adjustment = [r \in Procs |-> 1]
    /\ clusterer_threshold = [r \in Procs |-> None]
    /\ groups = [r \in Procs |-> <<>>]
    /\ max_dens = [r \in Procs |-> <<>>]
    /\ halo_max_dens = [r \in Procs |-> <<>>]
    /\ halo_info = [r \in Procs |-> None]
    /\ my_first_id = [r \in Procs |-> None]
    /\ compared = [r \in Procs |-> <<>>]
    /\ rank \in Procs
    /\ group_count \in 0..MaxHalos
    /\ Tot_M \in [1..group_count -> Masses]
    /\ CoM \in [1..group_count -> {0, 1}]
    /\ \E t \in SeqsUpTo((-1)..(group_count - 1), MaxTags) :
           tags = [r \in Procs |-> IF r = rank THEN Some(t) ELSE None]
    /\ pc = [r \in Procs |-> IF r = rank THEN "found" ELSE "idle"]

InitMerge ==
    /\ InitHOP \/ InitParallelHOP
    /\ IdleCalls /\ IdleProps /\ IdleExit /\ IdlePad /\ IdleLater

NextMerge ==
    \/ \E r \in Procs : ParseHalolist(r)
    \/ \E r \in Procs : JoinInfoDict(r)
    \/ \E r \in Procs : JoinAssemble(r)
    \/ JoinSort
    \/ \E r \in Procs : ParseOutput(r)
    \/ \E r \in Procs : JoinHalolistsParallel(r)

SpecMerge == InitMerge /\ [][NextMerge]_vars


(***************************************************************************)
(* Properties of the merge.                                                *)
(***************************************************************************)
\* The global halo count N: the sum of the kept counts, resp. group_count.
GlobalCount == IF finder = "HOP" THEN nhalos ELSE group_count

Merged(r) ==
    \/ finder = "HOP" /\ pc[r] \in {"assembled", "joined"}
    \/ finder = "parallelHOP" /\ pc[r] \in {"parsed", "joined"}

\* Whether worker r holds particles for the entry e of its list: in HOP the
\* entries of its own range; in parallel HOP the groups its tags name (size
\* carries the group the entry was made for).
HoldsParticlesOf(r, e) ==
    IF finder = "HOP" THEN e.owner = r
    ELSE \E p \in DOMAIN tags[r][1] : tags[r][1][p] = e.size[1][2]

\* C1: after the distributed merge every worker's list holds exactly N
\* entries, every id in [0, N) is the id of exactly one entry, and an entry
\* for a halo the worker holds no particle of has no particle indices (and
\* one it holds particles of has them).
C1_EveryIdOnce ==
    \A r \in Procs :
        Merged(r) =>
            /\ Len(groups[r]) = GlobalCount
            /\ \A g \in 0..(GlobalCount - 1) :
                   Cardinality({i \in 1..Len(groups[r]) :
                                   groups[r][i].id = g}) = 1
            /\ \A i \in 1..Len(groups[r]) :
                   (groups[r][i].indices = None)
                       <=> ~HoldsParticlesOf(r, groups[r][i])

C1_Witness ==
    \E r \in Procs :
        /\ finder = "HOP"
        /\ pc[r] = "joined"
        /\ Len(groups[r]) = 2
        /\ \E i \in 1..2 : groups[r][i].indices = None
        /\ \E i \in 1..2 : groups[r][i].indices # None

\* C2: every halo the clusterer finds is kept by exactly one worker, so the
\* global count is the number of halos of the dataset, whatever the number
\* of workers.
KeptBy(k) ==
    {r \in Procs : \E i \in 1..Len(groups[r]) : groups[r][i].indices = Some(k)}

C2_KeptByExactlyOne ==
    (finder = "HOP" /\ \A r \in Procs : pc[r] # "found") =>
        /\ \A k \in 1..Len(catalog) : Cardinality(KeptBy(k)) = 1
        /\ InfoDictComplete => nhalos = Len(catalog)

\* C3: after the final renumbering the list is ordered by descending total
\* mass, ties by ascending center-of-mass x, and the halo at position i has
\* id i.
MassAt(r, i) ==
    IF finder = "HOP" THEN catalog[HaloAt(r, i).indices[1]].mass
    ELSE groups[r][i].group_total_mass[1]

CoMxAt(r, i) ==
    IF finder = "HOP" THEN CoMx(HaloAt(r, i).indices[1])
    ELSE groups[r][i].CoM[1][1]

C3_SortedAndNumbered ==
    \A r \in Procs :
        pc[r] = "joined" =>
            /\ \A i \in 1..Len(groups[r]) : groups[r][i].id = i - 1
            /\ \A i, j \in 1..Len(groups[r]) :
                   i < j =>
                       /\ MassAt(r, i) >= MassAt(r, j)
                       /\ MassAt(r, i) = MassAt(r, j)
                              => CoMxAt(r, i) <= CoMxAt(r, j)

\* two halos of different mass, and two of equal mass and different
\* center of mass, in the order the clusterer did not give them
C3_Witness ==
    \E r \in Procs :
        /\ finder = "HOP"
        /\ pc[r] = "joined"
        /\ Len(catalog) = 2
        /\ Len(groups[r]) = 2
        /\ \/ catalog[1].mass < catalog[2].mass
           \/ catalog[1].mass = catalog[2].mass /\ CoMx(1) > CoMx(2)


(***************************************************************************)
(* The collective calls of the parallelHOPHalo properties.  Every worker   *)
(* holds a parallelHOPHalo for the halo: with the indices of its particles *)
(* of the halo, or with none (a ghost entry).  What is modelled of a       *)
(* property is the collective calls it issues, in order, and what it       *)
(* stores on the halo.                                                     *)
(***************************************************************************)
StatNames == {"size", "CoM", "max_dens_point", "group_total_mass",
              "max_radius", "bulk_vel", "rms_vel"}

\* if self.indices is not None: own  else: ghost
IfIndices(h, own, ghost) == IF h.indices # None THEN own ELSE ghost

Calls_maximum_density(h) ==
    IF h.max_dens_point # None THEN <<>> ELSE <<"allmax">>

Calls_maximum_density_location(h) ==
    IF h.max_dens_point # None THEN <<>>
    ELSE Calls_maximum_density(h) \o <<"allsum">>

Calls_center_of_mass(h) ==
    IF h.CoM # None THEN <<>>
    ELSE Calls_maximum_density_location(h) \o IfIndices(h, <<>>, <<>>) \o
         <<"allsum", "allsum">>

\* (mutant) a ghost entry returns its zero without the reduction
Calls_total_mass_ghost_returns(h) ==
    IF h.group_total_mass # None THEN <<>>
    ELSE IfIndices(h, <<"allsum">>, <<>>)

Calls_total_mass(h) ==
    IF h.group_total_mass # None THEN <<>>
    ELSE IfIndices(h, <<>>, <<>>) \o <<"allsum">>

Calls_bulk_velocity(h) ==
    IF h.bulk_vel # None THEN <<>>
    ELSE IfIndices(h, <<>>, <<>>) \o <<"allsum">>

Calls_rms_velocity(h) ==
    IF h.rms_vel # None THEN <<>>
    ELSE Calls_bulk_velocity(h) \o IfIndices(h, <<>>, <<>>) \o <<"allsum">>

Calls_maximum_radius(h, center_of_mass) ==
    IF h.max_radius # None THEN <<>>
    ELSE (IF center_of_mass THEN Calls_center_of_mass(h)
          ELSE Calls_maximum_density_location(h)) \o
         IfIndices(h, <<>>, <<>>) \o <<"allmax">>

Calls_get_size(h) ==
    IF h.size # None THEN <<>>
    ELSE IfIndices(h, <<>>, <<>>) \o <<"allsum">>

\* virial_info: nothing when the bins are those of the last call; else it
\* stores bin_count, computes, and stores overdensity.
virial_info(h, bins) ==
    IF h.bin_count = Some(bins) /\ h.overdensity # None
    THEN [calls |-> <<>>, halo |-> h]
    ELSE [calls |-> Calls_center_of_mass(h) \o IfIndices(h, <<>>, <<>>) \o
                    <<"allmin", "allmax">> \o IfIndices(h, <<>>, <<>>) \o
                    <<"Allsum_double">>,
          halo |-> [h EXCEPT !.bin_count = Some(bins),
                             !.overdensity = Some(bins)]]

virial_bin(h, bins) == virial_info(h, bins)

virial_mass(h, bins) ==
    LET info == virial_info(h, bins)
        vir_bin == virial_bin(info.halo, bins)
    IN  [calls |-> info.calls \o vir_bin.calls, halo |-> vir_bin.halo]

virial_radius(h, bins) ==
    LET info == virial_info(h, bins)
        vir_bin == virial_bin(info.halo, bins)
    IN  [calls |-> info.calls \o vir_bin.calls, halo |-> vir_bin.halo]

\* The operations, with their arguments: center_of_mass of maximum_radius,
\* bins of the virial operations (300 is the default).
BinCounts == {300, 100}

Operations ==
    [name : {"get_size", "total_mass", "center_of_mass", "bulk_velocity",
             "rms_velocity", "maximum_density", "maximum_density_location"},
     center_of_mass : {TRUE}, bins : {300}]
    \cup [name : {"maximum_radius"}, center_of_mass : BOOLEAN, bins : {300}]
    \cup [name : {"virial_info", "virial_bin", "virial_mass", "virial_radius"},
          center_of_mass : {TRUE}, bins : BinCounts]

Same(h, calls) == [calls |-> calls, halo |-> h]

Perform(o, h) ==
    CASE o.name = "get_size" -> Same(h, Calls_get_size(h))
      [] o.name = "total_mass" -> Same(h, Calls_total_mass(h))
      [] o.name = "center_of_mass" -> Same(h, Calls_center_of_mass(h))
      [] o.name = "bulk_velocity" -> Same(h, Calls_bulk_velocity(h))
      [] o.name = "rms_velocity" -> Same(h, Calls_rms_velocity(h))
      [] o.name = "maximum_density" -> Same(h, Calls_maximum_density(h))
      [] o.name = "maximum_density_location" ->
             Same(h, Calls_maximum_density_location(h))
      [] o.name = "maximum_radius" ->
             Same(h, Calls_maximum_radius(h, o.center_of_mass))
      [] o.name = "virial_info" -> virial_info(h, o.bins)
      [] o.name = "virial_bin" -> virial_bin(h, o.bins)
      [] o.name = "virial_mass" -> virial_mass(h, o.bins)
      [] o.name = "virial_radius" -> virial_radius(h, o.bins)

\* Every worker calls the operation on its entry of the halo.
Invoke(o) ==
    /\ \A r \in Procs : at[r] = "idle"
    /\ op' = o
    /\ todo' = [r \in Procs |-> Perform(o, phalo[r]).calls]
    /\ issued' = [r \in Procs |-> <<>>]
    /\ at' = [r \in Procs |-> "running"]
    /\ UNCHANGED <<phalo, mergeVars, propVars, exitVars, padVars, laterVars>>

\* Worker r reaches its next collective call and waits in it.
EnterCollective(r) ==
    /\ at[r] = "running"
    /\ todo[r] # <<>>
    /\ issued' = [issued EXCEPT ![r] = Append(@, Head(todo[r]))]
    /\ at' = [at EXCEPT ![r] = "blocked"]
    /\ UNCHANGED <<phalo, op, todo, mergeVars, propVars, exitVars, padVars, laterVars>>

\* A collective completes once every worker waits in the same call.
CanComplete ==
    /\ \A r \in Procs : at[r] = "blocked"
    /\ \A r, s \in Procs : Head(todo[r]) = Head(todo[s])

CompleteCollective ==
    /\ CanComplete
    /\ todo' = [r \in Procs |-> Tail(todo[r])]
    /\ at' = [r \in Procs |-> "running"]
    /\ UNCHANGED <<phalo, op, issued, mergeVars, propVars, exitVars, padVars, laterVars>>

\* Worker r returns from the operation.
Return(r) ==
    /\ at[r] = "running"
    /\ todo[r] = <<>>
    /\ phalo' = [phalo EXCEPT ![r] = Perform(op, @).halo]
    /\ at' = [at EXCEPT ![r] = "idle"]
    /\ UNCHANGED <<op, todo, issued, mergeVars, propVars, exitVars, padVars, laterVars>>

\* The halo as _parse_output builds it (every statistic precomputed), as
\* Halo.__init__ leaves it by default (none), and two in between.
Precomputed == {{}, StatNames, {"max_dens_point"}, {"CoM"}}

CallHalo(pre, own) ==
    LET h == NewHalo(0, IF own THEN Some(0) ELSE None)
        stat(name) == IF name \in pre THEN Some(name) ELSE None
    IN  [h EXCEPT !.size = stat("size"), !.CoM = stat("CoM"),
                  !.max_dens_point = stat("max_dens_point"),
                  !.group_total_mass = stat("group_total_mass"),
                  !.max_radius = stat("max_radius"),
                  !.bulk_vel = stat("bulk_vel"), !.rms_vel = stat("rms_vel")]

InitCalls ==
    /\ \E pre \in Precomputed, holders \in SUBSET Procs :
           phalo = [r \in Procs |-> CallHalo(pre, r \in holders)]
    /\ op = [name |-> "none", center_of_mass |-> TRUE, bins |-> 300]
    /\ todo = [r \in Procs |-> <<>>]
    /\ issued = [r \in Procs |-> <<>>]
    /\ at = [r \in Procs |-> "idle"]
    /\ IdleMerge /\ IdleProps /\ IdleExit /\ IdlePad /\ IdleLater

NextCalls ==
    \/ \E o \in Operations : Invoke(o)
    \/ \E r \in Procs : EnterCollective(r)
    \/ CompleteCollective
    \/ \E r \in Procs : Return(r)

SpecCalls == InitCalls /\ [][NextCalls]_vars

\* The collective calls worker r issues in the operation, from its call to
\* its return.
WholeSequence(r) ==
    issued[r] \o (IF at[r] = "blocked" THEN Tail(todo[r]) ELSE todo[r])

\* Some worker waits in a collective that can never complete: no worker is
\* still on its way to a call, and the workers do not all wait in one call.
BlockedForever ==
    /\ \E r \in Procs : at[r] = "blocked"
    /\ \A r \in Procs : at[r] # "running"
    /\ ~CanComplete

\* C4: in every parallelHOPHalo property operation the workers issue the
\* same sequence of collective calls, whether a worker holds particles of
\* the halo or a ghost entry, and no worker is left waiting in a collective
\* the others never enter.
C4_SameCollectives ==
    /\ \A r, s \in Procs : WholeSequence(r) = WholeSequence(s)
    /\ ~BlockedForever

\* a holder and a ghost have both returned from a virial_mass that took every
\* collective of the operation
C4_Witness ==
    /\ op.name = "virial_mass"
    /\ \A r \in Procs : at[r] = "idle" /\ Len(issued[r]) = 7
    /\ \E r \in Procs : phalo[r].indices = None
    /\ \E r \in Procs : phalo[r].indices # None


(***************************************************************************)
(* The values of the halo properties: Halo computes them over the          *)
(* particles of one partition, parallelHOPHalo over the particles each     *)
(* worker holds, with reductions over the workers.                         *)
(*                                                                         *)
(* Numbers are exact fractions <<n, d>> in lowest terms with d > 0; a      *)
(* square root is held as the number it is the root of.  The domain is the *)
(* unit cube.                                                              *)
(***************************************************************************)
MaxParticles == 2

Abs(x) == IF x < 0 THEN -x ELSE x

RECURSIVE GCD(_, _)
GCD(a, b) == IF b = 0 THEN a ELSE GCD(b, a % b)

Frac(n, d) ==
    LET g == GCD(Abs(n), Abs(d))
        s == IF d < 0 THEN -1 ELSE 1
    IN  <<(s * n) \div g, (s * d) \div g>>

Q(n) == <<n, 1>>
Add(a, b) == Frac(a[1] * b[2] + b[1] * a[2], a[2] * b[2])
Sub(a, b) == Frac(a[1] * b[2] - b[1] * a[2], a[2] * b[2])
Mul(a, b) == Frac(a[1] * b[1], a[2] * b[2])
Div(a, b) == Frac(a[1] * b[2], a[2] * b[1])
Less(a, b) == a[1] * b[2] < b[1] * a[2]
minimum(a, b) == IF Less(b, a) THEN b ELSE a
floor(a) == Q(a[1] \div a[2])
abs(a) == <<Abs(a[1]), a[2]>>

\* numpy's sum and max of an array, here a function from the indices
RECURSIVE SumOver(_, _)
SumOver(f, S) ==
    IF S = {} THEN Q(0)
    ELSE LET i == CHOOSE j \in S : TRUE IN Add(f[i], SumOver(f, S \ {i}))

sum(f) == SumOver(f, DOMAIN f)

max(f) ==
    LET i == CHOOSE j \in DOMAIN f : \A k \in DOMAIN f : ~Less(f[j], f[k])
    IN  f[i]

\* _mpi_allsum, _mpi_allmax: every worker gets the sum, the maximum, of what
\* the workers handed in.
mpi_allsum(mine) == sum(mine)
mpi_allmax(mine) == max(mine)

\* An array: its elements are computed once, when it is built.  A vector
\* has an element for each dimension; what the workers hold, hand in or
\* return has the element of worker s at index s + 1.
array(f) == f \o <<>>
Slots == 1..NumWorkers

\* domain_right_edge - domain_left_edge
DW == <<Q(1), Q(1), Q(1)>>

\* The particles a halo is made of.
Motions ==
    {[pos |-> <<<<1, 8>>, <<1, 2>>, <<1, 2>>>>, vel |-> <<Q(0), Q(0), Q(0)>>],
     [pos |-> <<<<7, 8>>, <<1, 2>>, <<3, 4>>>>, vel |-> <<Q(2), Q(0), Q(-2)>>],
     [pos |-> <<<<3, 8>>, <<1, 4>>, <<1, 2>>>>, vel |-> <<Q(1), Q(3), Q(0)>>]}

ParticleKinds ==
    {[ParticleMassMsun |-> Q(m), particle_position |-> k.pos,
      particle_velocity |-> k.vel] : m \in Masses, k \in Motions}

\* self[key]: self.data[key][self.indices]
getitem(h, key) ==
    IF h.indices = None THEN <<>>
    ELSE [i \in h.indices[1] |-> particles[i][key]]

\* The densest particle of the halo is its first; the peak table and the
\* precomputed peak hold its density and position.
PeakRow == <<Q(8)>> \o particles[1].particle_position
PeakTable == (0 :> PeakRow)

\* The halo over all the particles (one partition), and the entry of
\* worker r: the particles it holds, or none.
Local(r) == {i \in 1..Len(particles) : where[i] = r}
SerialHalo == NewHalo(0, Some(1..Len(particles)))
ParallelHalo(r) ==
    [NewHalo(0, IF Local(r) = {} THEN None ELSE Some(Local(r)))
        EXCEPT !.max_dens_point = Some(PeakRow)]

(***************************************************************************)
(* Halo                                                                    *)
(***************************************************************************)
\* (mutant) the positions are taken as they are
CVec_origin(loc) == array([d \in Dims |-> Q(0)])

\* c_vec = self.maximum_density_location() - na.array([0.5,0.5,0.5])
CVec(loc) == array([d \in Dims |-> Sub(loc[d], <<1, 2>>)])

\* (com*pm).sum(axis=1) with com = v - floor(v), v the positions less c_vec
WrappedMoment(h, c_vec) ==
    LET pm == getitem(h, "ParticleMassMsun")
        x == getitem(h, "particle_position")
        com(i, d) == LET v == Sub(x[i][d], c_vec[d]) IN Sub(v, floor(v))
    IN  array([d \in Dims |->
                  sum([i \in DOMAIN pm |-> Mul(com(i, d), pm[i])])])

Halo_center_of_mass(h) ==
    LET c_vec == CVec(maximum_density_location(PeakTable, h))
        pm_sum == sum(getitem(h, "ParticleMassMsun"))
        moment == WrappedMoment(h, c_vec)
    IN  array([d \in Dims |-> Add(Div(moment[d], pm_sum), c_vec[d])])

\* FOFHalo.center_of_mass: c_vec = na.array([cx[0],cy[0],cz[0]]) - 0.5, the
\* position of the first particle of the halo
FOF_center_of_mass(h) ==
    LET first == CHOOSE i \in h.indices[1] : \A j \in h.indices[1] : i <= j
        c_vec == CVec(getitem(h, "particle_position")[first])
        pm_sum == sum(getitem(h, "ParticleMassMsun"))
        moment == WrappedMoment(h, c_vec)
    IN  array([d \in Dims |-> Add(Div(moment[d], pm_sum), c_vec[d])])

Halo_total_mass(h) == sum(getitem(h, "ParticleMassMsun"))

Halo_get_size(h) == Cardinality(h.indices[1])

\* (vx, vy, vz): the velocities times the masses, summed
Momentum(h) ==
    LET pm == getitem(h, "ParticleMassMsun")
        v == getitem(h, "particle_velocity")
    IN  array([d \in Dims |->
                  sum([i \in DOMAIN pm |-> Mul(v[i][d], pm[i])])])

Halo_bulk_velocity(h) ==
    LET pm_sum == sum(getitem(h, "ParticleMassMsun"))
        momentum == Momentum(h)
    IN  array([d \in Dims |-> Div(momentum[d], pm_sum)])

\* (vx**2 + vy**2 + vz**2) with v = (velocity - bv) * pm / sm
SquaredDeviations(h, bv, sm) ==
    LET pm == getitem(h, "ParticleMassMsun")
        v == getitem(h, "particle_velocity")
        sq(i, d) == LET dev == Div(Mul(Sub(v[i][d], bv[d]), pm[i]), sm)
                    IN  Mul(dev, dev)
    IN  [i \in DOMAIN pm |-> Add(Add(sq(i, 1), sq(i, 2)), sq(i, 3))]

\* sqrt(ms) * size, as its square
RootTimes(ms, size) == Mul(ms, Mul(size, size))

Halo_rms_velocity(h) ==
    LET bv == Halo_bulk_velocity(h)
        sm == sum(getitem(h, "ParticleMassMsun"))
        s == SquaredDeviations(h, bv, sm)
        size == Q(Cardinality(DOMAIN s))
        ms == Div(sum(s), size)
    IN  RootTimes(ms, size)

\* r of maximum_radius, as its square, for every particle of h
Radii(h, center) ==
    LET x == getitem(h, "particle_position")
        sq(i, d) == LET rd == abs(Sub(x[i][d], center[d]))
                        md == minimum(rd, Sub(DW[d], rd))
                    IN  Mul(md, md)
    IN  [i \in DOMAIN x |-> Add(Add(sq(i, 1), sq(i, 2)), sq(i, 3))]

Halo_maximum_radius(h, center_of_mass) ==
    LET center == IF center_of_mass THEN Halo_center_of_mass(h)
                  ELSE maximum_density_location(PeakTable, h)
    IN  max(Radii(h, center))

(***************************************************************************)
(* parallelHOPHalo: what a worker hands to the reduction (my_...), and the *)
(* value worker r returns.  hs holds the entry of every worker.            *)
(***************************************************************************)
par_maximum_density_location(h) ==
    array([d \in Dims |-> h.max_dens_point[1][d + 1]])

\* (mutant) the local center of mass, not weighted by the local mass
my_center_of_mass_unweighted(h) ==
    LET c_vec == CVec(par_maximum_density_location(h))
        my_mass == sum(getitem(h, "ParticleMassMsun"))
        moment == WrappedMoment(h, c_vec)
    IN  IF h.indices # None
        THEN [my_mass |-> my_mass,
              my_com |-> array([d \in Dims |->
                  Add(Div(moment[d], my_mass), c_vec[d])])]
        ELSE [my_mass |-> Q(0), my_com |-> <<Q(0), Q(0), Q(0)>>]

my_center_of_mass(h) ==
    LET c_vec == CVec(par_maximum_density_location(h))
        my_mass == sum(getitem(h, "ParticleMassMsun"))
        moment == WrappedMoment(h, c_vec)
    IN  IF h.indices # None
        THEN [my_mass |-> my_mass,
              my_com |-> array([d \in Dims |->
                  Mul(Add(Div(moment[d], my_mass), c_vec[d]), my_mass)])]
        ELSE [my_mass |-> Q(0), my_com |-> <<Q(0), Q(0), Q(0)>>]

par_center_of_mass(hs, r) ==
    IF hs[r + 1].CoM # None THEN hs[r + 1].CoM[1]
    ELSE
        LET mine == array([s \in Slots |-> my_center_of_mass(hs[s])])
            global_mass == mpi_allsum([s \in Slots |-> mine[s].my_mass])
            global_com == array([d \in Dims |->
                mpi_allsum([s \in Slots |-> mine[s].my_com[d]])])
        IN  array([d \in Dims |-> Div(global_com[d], global_mass)])

my_total_mass(h) ==
    IF h.indices # None THEN sum(getitem(h, "ParticleMassMsun")) ELSE Q(0)

par_total_mass(hs, r) ==
    IF hs[r + 1].group_total_mass # None THEN hs[r + 1].group_total_mass[1]
    ELSE mpi_allsum([s \in Slots |-> my_total_mass(hs[s])])

my_get_size(h) ==
    IF h.indices # None THEN Q(Cardinality(h.indices[1])) ELSE Q(0)

par_get_size(hs, r) ==
    IF hs[r + 1].size # None THEN hs[r + 1].size[1]
    ELSE mpi_allsum([s \in Slots |-> my_get_size(hs[s])])[1]

\* (mutant) the velocities summed without their masses
my_bulk_velocity_unweighted(h) ==
    IF h.indices # None
    THEN LET v == getitem(h, "particle_velocity")
         IN  [d \in Dims |-> sum([i \in DOMAIN v |-> v[i][d]])] \o
             <<sum(getitem(h, "ParticleMassMsun"))>>
    ELSE <<Q(0), Q(0), Q(0), Q(0)>>

\* bv = [vx, vy, vz, pm]
my_bulk_velocity(h) ==
    IF h.indices # None
    THEN Momentum(h) \o <<sum(getitem(h, "ParticleMassMsun"))>>
    ELSE <<Q(0), Q(0), Q(0), Q(0)>>

par_bulk_velocity(hs, r) ==
    IF hs[r + 1].bulk_vel # None THEN hs[r + 1].bulk_vel[1]
    ELSE
        LET mine == array([s \in Slots |-> my_bulk_velocity(hs[s])])
            global_bv == array([k \in 1..4 |->
                mpi_allsum([s \in Slots |-> mine[s][k]])])
        IN  array([d \in Dims |-> Div(global_bv[d], global_bv[4])])

\* ss = [s, size]; sm is the sum of the masses the worker holds
my_rms_velocity(hs, r) ==
    LET bv == par_bulk_velocity(hs, r)
        pm == getitem(hs[r + 1], "ParticleMassMsun")
        sm == sum(pm)
        s == SquaredDeviations(hs[r + 1], bv, sm)
    IN  IF hs[r + 1].indices # None
        THEN <<sum(s), Q(Cardinality(DOMAIN s))>>
        ELSE <<Q(0), Q(0)>>

par_rms_velocity(hs, r) ==
    IF hs[r + 1].rms_vel # None THEN hs[r + 1].rms_vel[1]
    ELSE
        LET mine == array([s \in Slots |-> my_rms_velocity(hs, s - 1)])
            global_ss == array([k \in 1..2 |->
                mpi_allsum([s \in Slots |-> mine[s][k]])])
            ms == Div(global_ss[1], global_ss[2])
        IN  RootTimes(ms, global_ss[2])

my_maximum_radius(hs, r, center_of_mass) ==
    LET center == IF center_of_mass THEN par_center_of_mass(hs, r)
                  ELSE par_maximum_density_location(hs[r + 1])
    IN  IF hs[r + 1].indices # None THEN max(Radii(hs[r + 1], center))
        ELSE Q(0)

par_maximum_radius(hs, r, center_of_mass) ==
    IF hs[r + 1].max_radius # None THEN hs[r + 1].max_radius[1]
    ELSE mpi_allmax(array([s \in Slots |->
             my_maximum_radius(hs, s - 1, center_of_mass)]))

(***************************************************************************)
(* One action for each property: the workers call it on their entries and  *)
(* a single partition calls it on the whole halo.  mine is what each       *)
(* worker handed to the (last) reduction.  A run computes one property of  *)
(* the halo it drew.                                                       *)
(***************************************************************************)
Entries == array([s \in Slots |-> ParallelHalo(s - 1)])

Computed(name, serial, parallel, mine) ==
    [op |-> name, serial |-> serial, parallel |-> parallel, mine |-> mine]

GetSize ==
    /\ particles # <<>>
    /\ props.op = "none"
    /\ LET hs == Entries
       IN  props' = Computed("get_size", Halo_get_size(SerialHalo),
                        [s \in Slots |-> par_get_size(hs, s - 1)],
                        [s \in Slots |-> <<my_get_size(hs[s])>>])
    /\ UNCHANGED <<particles, where, mergeVars, callVars, exitVars, padVars, laterVars>>

TotalMass ==
    /\ particles # <<>>
    /\ props.op = "none"
    /\ LET hs == Entries
       IN  props' = Computed("total_mass", Halo_total_mass(SerialHalo),
                        [s \in Slots |-> par_total_mass(hs, s - 1)],
                        [s \in Slots |-> <<my_total_mass(hs[s])>>])
    /\ UNCHANGED <<particles, where, mergeVars, callVars, exitVars, padVars, laterVars>>

CenterOfMass ==
    /\ particles # <<>>
    /\ props.op = "none"
    /\ LET hs == Entries
           mine == array([s \in Slots |-> my_center_of_mass(hs[s])])
       IN  props' = Computed("center_of_mass", Halo_center_of_mass(SerialHalo),
                        [s \in Slots |-> par_center_of_mass(hs, s - 1)],
                        [s \in Slots |->
                            <<mine[s].my_mass>> \o mine[s].my_com])
    /\ UNCHANGED <<particles, where, mergeVars, callVars, exitVars, padVars, laterVars>>

\* FOFHalo.center_of_mass, on the whole halo
FOFCenterOfMass ==
    /\ particles # <<>>
    /\ props.op = "none"
    /\ props' = Computed("fof_center_of_mass", FOF_center_of_mass(SerialHalo),
                         <<>>, <<>>)
    /\ UNCHANGED <<particles, where, mergeVars, callVars, exitVars, padVars, laterVars>>

MaximumRadius(center_of_mass) ==
    /\ particles # <<>>
    /\ props.op = "none"
    /\ LET hs == Entries
       IN  props' = Computed("maximum_radius",
                        Halo_maximum_radius(SerialHalo, center_of_mass),
                        [s \in Slots |->
                            par_maximum_radius(hs, s - 1, center_of_mass)],
                        [s \in Slots |->
                            <<my_maximum_radius(hs, s - 1, center_of_mass)>>])
    /\ UNCHANGED <<particles, where, mergeVars, callVars, exitVars, padVars, laterVars>>

BulkVelocity ==
    /\ particles # <<>>
    /\ props.op = "none"
    /\ LET hs == Entries
       IN  props' = Computed("bulk_velocity", Halo_bulk_velocity(SerialHalo),
                        [s \in Slots |-> par_bulk_velocity(hs, s - 1)],
                        [s \in Slots |-> my_bulk_velocity(hs[s])])
    /\ UNCHANGED <<particles, where, mergeVars, callVars, exitVars, padVars, laterVars>>

RmsVelocity ==
    /\ particles # <<>>
    /\ props.op = "none"
    /\ LET hs == Entries
       IN  props' = Computed("rms_velocity", Halo_rms_velocity(SerialHalo),
                        [s \in Slots |-> par_rms_velocity(hs, s - 1)],
                        [s \in Slots |-> my_rms_velocity(hs, s - 1)])
    /\ UNCHANGED <<particles, where, mergeVars, callVars, exitVars, padVars, laterVars>>

(***************************************************************************)
(* parallelHOPHaloList._run_finder: the bulk and the RMS velocity of the   *)
(* group, computed ahead from the particles each worker holds.  The halo   *)
(* is the one group of the run; Tot_M and group_sizes of the clusterer are *)
(* the mass and the number of its particles.                               *)
(***************************************************************************)
run_Tot_M == Halo_total_mass(SerialHalo)
run_group_sizes == Q(Halo_get_size(SerialHalo))

\* vel = v[select] * ms, the rows of the worker
run_vel(r) ==
    [i \in Local(r) |->
        array([d \in Dims |-> Mul(particles[i].particle_velocity[d],
                                  particles[i].ParticleMassMsun)])]

\* self.bulk_vel[u] = na.sum(vel[marks[i]:marks[i+1]], axis=0)
run_my_bulk_vel(r) ==
    LET vel == run_vel(r)
    IN  array([d \in Dims |-> sum([i \in DOMAIN vel |-> vel[i][d]])])

\* _mpi_Allsum_double, then the division by Tot_M
run_bulk_vel ==
    LET mine == array([s \in Slots |-> run_my_bulk_vel(s - 1)])
    IN  array([d \in Dims |->
                  Div(mpi_allsum([s \in Slots |-> mine[s][d]]), run_Tot_M)])

\* rms_vel_temp[u] = [na.sum(((vel - bulk_vel) / Tot_M)**2.), the rows]
run_my_rms_vel_temp(r) ==
    LET vel == run_vel(r)
        bv == run_bulk_vel
        sq(i, d) == LET dev == Div(Sub(vel[i][d], bv[d]), run_Tot_M)
                    IN  Mul(dev, dev)
    IN  <<sum([i \in DOMAIN vel |-> Add(Add(sq(i, 1), sq(i, 2)), sq(i, 3))]),
          Q(Cardinality(DOMAIN vel))>>

\* na.sqrt(rms_vel_temp[0] / rms_vel_temp[1]) * group_sizes, as its square
run_rms_vel ==
    LET mine == array([s \in Slots |-> run_my_rms_vel_temp(s - 1)])
        rms_vel_temp == array([k \in 1..2 |->
            mpi_allsum([s \in Slots |-> mine[s][k]])])
    IN  RootTimes(Div(rms_vel_temp[1], rms_vel_temp[2]), run_group_sizes)

\* the entries that _parse_output builds with bulk_vel and rms_vel
PrecomputedEntries ==
    array([s \in Slots |->
        [ParallelHalo(s - 1) EXCEPT !.bulk_vel = Some(run_bulk_vel),
                                    !.rms_vel = Some(run_rms_vel)]])

PrecomputedBulkVelocity ==
    /\ particles # <<>>
    /\ props.op = "none"
    /\ \E hs \in {PrecomputedEntries} :
           props' = Computed("precomputed_bulk_velocity",
                        Halo_bulk_velocity(SerialHalo),
                        [s \in Slots |-> par_bulk_velocity(hs, s - 1)],
                        [s \in Slots |-> run_my_bulk_vel(s - 1)])
    /\ UNCHANGED <<particles, where, mergeVars, callVars, exitVars, padVars, laterVars>>

PrecomputedRmsVelocity ==
    /\ particles # <<>>
    /\ props.op = "none"
    /\ \E hs \in {PrecomputedEntries} :
           props' = Computed("precomputed_rms_velocity",
                        Halo_rms_velocity(SerialHalo),
                        [s \in Slots |-> par_rms_velocity(hs, s - 1)],
                        [s \in Slots |-> run_my_rms_vel_temp(s - 1)])
    /\ UNCHANGED <<particles, where, mergeVars, callVars, exitVars, padVars, laterVars>>

NoProps == [op |-> "none", serial |-> 0, parallel |-> 0, mine |-> 0]

InitProps ==
    /\ \E n \in 1..MaxParticles :
           /\ particles \in [1..n -> ParticleKinds]
           /\ where \in [1..n -> Procs]
    /\ props = NoProps
    /\ IdleMerge /\ IdleCalls /\ IdleExit /\ IdlePad /\ IdleLater

NextProps ==
    \/ GetSize
    \/ TotalMass
    \/ CenterOfMass
    \/ FOFCenterOfMass
    \/ \E center_of_mass \in BOOLEAN : MaximumRadius(center_of_mass)
    \/ BulkVelocity
    \/ RmsVelocity
    \/ PrecomputedBulkVelocity
    \/ PrecomputedRmsVelocity

SpecProps == InitProps /\ [][NextProps]_vars

Ghosts == {r \in Procs : Local(r) = {}}
Holders == {r \in Procs : Local(r) # {}}

C6_BulkVelocityEqualsSerial ==
    props.op = "bulk_velocity" =>
        \A r \in Procs : \A d \in Dims :
            props.parallel[r + 1][d] = props.serial[d]

\* two particles of different mass and velocity, split over two workers
C6_Witness ==
    /\ props.op = "bulk_velocity"
    /\ Cardinality(Holders) = 2
    /\ Len(particles) = 2
    /\ particles[1].ParticleMassMsun # particles[2].ParticleMassMsun
    /\ particles[1].particle_velocity # particles[2].particle_velocity

\* C7: with the particles split over two or more workers, rms_velocity of
\* parallelHOPHalo returns what Halo.rms_velocity returns over all the
\* particles.
C7_RmsVelocityEqualsSerial ==
    (props.op = "rms_velocity" /\ Cardinality(Holders) >= 2) =>
        \A r \in Procs : props.parallel[r + 1] = props.serial


(***************************************************************************)
(* parallelHOPHaloList._run_finder: the test of the particle indices, the  *)
(* collective exit test, the clustering run; then the output is parsed and *)
(* the lists are joined.                                                   *)
(***************************************************************************)
MaxIndices == 2

\* The index arrays a worker may read: a negative value and two others, in
\* ascending order (the test does not look at the order).
IndexValues == {-1, 5, 6}
IndexArrays ==
    {a \in SeqsUpTo(IndexValues, MaxIndices) :
        a # <<>> /\ \A i \in 1..(Len(a) - 1) : a[i] <= a[i + 1]}

\* (mutant) only the sign of the indices is tested
suspicious_if_negative(index) ==
    \E i \in DOMAIN index : index[i] < 0

\* exit: a negative index, or fewer distinct values than values
suspicious(index) ==
    \/ \E i \in DOMAIN index : index[i] < 0
    \/ Len(unique(index)) # Len(index)

\* self._mpi_exit_test(exit): the worker hands in its flag and waits for the
\* flags of the others.
ExitTest(r) ==
    /\ stage[r] = "reading"
    /\ exit' = [exit EXCEPT ![r] = Some(suspicious(particle_index[r]))]
    /\ exit_tests' = [exit_tests EXCEPT ![r] = @ + 1]
    /\ stage' = [stage EXCEPT ![r] = "exit_test"]
    /\ UNCHANGED <<particle_index, mergeVars, callVars, propVars, padVars, laterVars>>

\* _mpi_exit_test returns once every flag is in: it raises on every worker
\* if a flag is set, and returns nothing otherwise.
ExitTestReturn(r) ==
    /\ stage[r] = "exit_test"
    /\ \A s \in Procs : exit[s] # None
    /\ stage' = [stage EXCEPT ![r] =
                    IF \E s \in Procs : exit[s] = Some(TRUE)
                    THEN "RuntimeError" ELSE "clustering"]
    /\ UNCHANGED <<particle_index, exit, exit_tests, mergeVars, callVars,
                   propVars, padVars, laterVars>>

\* obj = ParallelHOPHaloFinder(...)
RunClusterer(r) ==
    /\ stage[r] = "clustering"
    /\ stage' = [stage EXCEPT ![r] = "clustered"]
    /\ UNCHANGED <<particle_index, exit, exit_tests, mergeVars, callVars,
                   propVars, padVars, laterVars>>

\* self._parse_output() and self._join_halolists()
ParseAndJoin(r) ==
    /\ stage[r] = "clustered"
    /\ stage' = [stage EXCEPT ![r] = "merged"]
    /\ UNCHANGED <<particle_index, exit, exit_tests, mergeVars, callVars,
                   propVars, padVars, laterVars>>

InitExit ==
    /\ particle_index \in [Procs -> IndexArrays]
    /\ exit = [r \in Procs |-> None]
    /\ exit_tests = [r \in Procs |-> 0]
    /\ stage = [r \in Procs |-> "reading"]
    /\ IdleMerge /\ IdleCalls /\ IdleProps /\ IdlePad /\ IdleLater

NextExit ==
    \/ \E r \in Procs : ExitTest(r)
    \/ \E r \in Procs : ExitTestReturn(r)
    \/ \E r \in Procs : RunClusterer(r)
    \/ \E r \in Procs : ParseAndJoin(r)

SpecExit == InitExit /\ [][NextExit]_vars

\* Worker r holds a negative index, or an index twice.
FoundViolation(r) ==
    \/ \E i \in DOMAIN particle_index[r] : particle_index[r][i] < 0
    \/ \E i, j \in DOMAIN particle_index[r] :
           i # j /\ particle_index[r][i] = particle_index[r][j]

PastExitTest == {"clustering", "clustered", "merged"}

\* C8: every worker calls the collective exit test exactly once, with its
\* own flag, before it clusters or merges, whether or not it found a
\* violation; and if any worker found a negative or duplicated index, no
\* worker clusters or merges: they all leave through the exit test.
C8_CollectiveExit ==
    /\ \A r \in Procs :
           /\ exit_tests[r] = IF stage[r] = "reading" THEN 0 ELSE 1
           /\ stage[r] # "reading" => exit[r] = Some(FoundViolation(r))
           /\ stage[r] = "RuntimeError" => \A s \in Procs : exit[s] # None
    /\ (\E s \in Procs : FoundViolation(s)) =>
           \A r \in Procs : stage[r] \notin PastExitTest

\* one worker holds an index twice, another holds clean indices, and both
\* have left through the exit test
C8_Witness ==
    /\ \E s \in Procs : FoundViolation(s)
    /\ \E s \in Procs : ~FoundViolation(s)
    /\ \A r \in Procs : stage[r] = "RuntimeError"

\* An index is negative, or occurs twice in the run: twice on a worker, or
\* on two workers.
RunViolation ==
    \/ \E r \in Procs : FoundViolation(r)
    \/ \E r, s \in Procs :
           /\ r # s
           /\ \E i \in DOMAIN particle_index[r], j \in DOMAIN particle_index[s] :
                  particle_index[r][i] = particle_index[s][j]

\* C9: a negative index, or an index that occurs twice anywhere in the run,
\* is fatal before merging begins: no worker gets past the exit test.
C9_GlobalUniqueness ==
    RunViolation => \A r \in Procs : stage[r] \notin PastExitTest


(***************************************************************************)
(* parallelHF.__init__: the padding of each face (fancy_padding) and the   *)
(* sum of the particle masses that follows.  counts is the histogram of    *)
(* the worker's particles along a dimension, in bins of base_padding; the  *)
(* histograms of the three dimensions bin the same particles.              *)
(***************************************************************************)
MaxBins == 2
num_neighbors == 65

\* The number of particles a bin may hold.
BinSizes == {0, 33, 65}
Histograms == {c \in SeqsUpTo(BinSizes, MaxBins) : c # <<>>}

\* start = 0; count = counts[0]
\* while count < self.num_neighbors: start += 1; count += counts[start]
RECURSIVE LeftWalk(_, _, _)
LeftWalk(c, start, count) ==
    IF count < num_neighbors
    THEN IF start + 1 >= Len(c) THEN "IndexError"
         ELSE LeftWalk(c, start + 1, count + c[start + 2])
    ELSE "found"

\* start = -1; count = counts[-1]
\* while count < self.num_neighbors: start -= 1; count += counts[start]
RECURSIVE RightWalk(_, _, _)
RightWalk(c, start, count) ==
    IF count < num_neighbors
    THEN IF start - 1 < -Len(c) THEN "IndexError"
         ELSE RightWalk(c, start - 1, count + c[Len(c) + start])
    ELSE "found"

\* avg_spacing = (float(vol) / data.size)**(1./3.), then the two walks
fancy_padding(c) ==
    IF SumSeq(c) = 0 THEN "ZeroDivisionError"
    ELSE IF LeftWalk(c, 0, c[1]) # "found" THEN LeftWalk(c, 0, c[1])
    ELSE IF RightWalk(c, -1, c[Len(c)]) # "found"
    THEN RightWalk(c, -1, c[Len(c)])
    ELSE "allsum"

\* The worker computes its padding and, unless that raised, calls
\* self._mpi_allsum on the mass of its particles and waits in it.
FancyPadding(r) ==
    /\ padpc[r] = "start"
    /\ Distributed
    /\ padpc' = [padpc EXCEPT ![r] = fancy_padding(counts[r])]
    /\ UNCHANGED <<counts, mergeVars, callVars, propVars, exitVars, laterVars>>

\* The all-sum completes once every worker is in it.
TotalMassAllsum ==
    /\ \A r \in Procs : padpc[r] = "allsum"
    /\ padpc' = [r \in Procs |-> "summed"]
    /\ UNCHANGED <<counts, mergeVars, callVars, propVars, exitVars, laterVars>>

InitPad ==
    /\ counts \in [Procs -> Histograms]
    /\ padpc = [r \in Procs |-> "start"]
    /\ IdleMerge /\ IdleCalls /\ IdleProps /\ IdleExit /\ IdleLater

NextPad ==
    \/ \E r \in Procs : FancyPadding(r)
    \/ TotalMassAllsum

SpecPad == InitPad /\ [][NextPad]_vars

Raised == {"IndexError", "ZeroDivisionError"}

\* C10: with fewer than num_neighbors particles on a worker the failure is
\* collective: no worker fails on its own (walking past the end of the
\* histogram) while another goes on to the all-sum of the total mass and
\* waits there.
C10_CollectiveFailure ==
    \A r, s \in Procs : padpc[r] \in Raised => padpc[s] # "allsum"


\* C11: a worker whose partition holds no particle completes the padding
\* computation without raising an error (and goes on to the all-sum of the
\* total mass, to which it hands zero).
C11_EmptyWorkerCompletes ==
    \A r \in Procs :
        (SumSeq(counts[r]) = 0 /\ padpc[r] # "start") =>
            padpc[r] \in {"allsum", "summed"}


(***************************************************************************)
(* The virial quantities: Halo.virial_info / virial_bin / virial_mass /    *)
(* virial_radius over all the particles of a halo, and those of            *)
(* parallelHOPHalo over the particles each worker holds.                   *)
(*                                                                         *)
(* A particle is held by its mass and its distance to the center of mass   *)
(* (periodic_dist(cen, pos, period)), in thousandths of the domain width;  *)
(* the center is the same in both computations.  Logarithms are in         *)
(* thousandths of a decade.  The radial bin edges are equally spaced in    *)
(* the logarithm: edge k of bins b is held as b times its logarithm.       *)
(***************************************************************************)
VirialDists == {0, 10, 20}
VirialBinCounts == {2, 3}

\* log10 of TINY, of 2, of .99 and of 1.01
log10_TINY == -40000
log10_2 == 301
log10_099 == -4
log10_101 == 4

\* math.log10 of the integers that occur: masses and their sums, distances
Log10Table == <<0, 301, 477, 602, 699, 778, 845, 903, 954>>
log10(n) ==
    CASE n = 10 -> 1000
      [] n = 20 -> 1301
      [] n = 100 -> 2000
      [] n = 1000 -> 3000
      [] OTHER -> Log10Table[n]

\* the logarithm of a distance, in units of the domain width
log10_dist(d) == log10(d) - 3000

\* max(period)
max_period == 1000

RECURSIVE MassOf(_)
MassOf(S) ==
    IF S = {} THEN 0
    ELSE LET i == CHOOSE j \in S : TRUE
         IN  vparticles[i].mass + MassOf(S \ {i})

Min(S) == CHOOSE x \in S : \A y \in S : x <= y
Max(S) == CHOOSE x \in S : \A y \in S : x >= y

\* na.logspace(math.log10(dist_min*.99 + TINY),
\*             math.log10(dist_max*1.01 + 2*TINY), num=bins+1)
logspace(dist_min, dist_max, bins) ==
    LET start == IF dist_min = 0 THEN log10_TINY
                 ELSE log10_dist(dist_min) + log10_099
        stop == IF dist_max = 0 THEN log10_TINY + log10_2
                ELSE log10_dist(dist_max) + log10_101
    IN  array([k \in 1..(bins + 1) |->
                  bins * start + (k - 1) * (stop - start)])

\* na.digitize(dist, radial_bins): the number of edges not above dist
digitize(d, radial_bins) ==
    LET bins == Len(radial_bins) - 1
    IN  IF d = 0 THEN 0
        ELSE Cardinality({k \in DOMAIN radial_bins :
                             radial_bins[k] <= bins * log10_dist(d)})

\* the place of mass_bins[index]: a negative index counts from the end
At(index, len) == (IF index < 0 THEN len + index ELSE index) + 1

\* for index in na.unique(inds):
\*     mass_bins[index] += sum(self["ParticleMassMsun"][inds==index])
Binned(indices, radial_bins) ==
    array([k \in DOMAIN radial_bins |->
              MassOf({i \in indices :
                         At(digitize(vparticles[i].dist, radial_bins) - 1,
                            Len(radial_bins)) = k})])

\* (mutant) each bin keeps the mass of its own shell
no_forward_sum(mass_bins) == mass_bins

\* for i in xrange(self.bin_count): mass_bins[i+1] += mass_bins[i]
ForwardSum(mass_bins) ==
    array([k \in DOMAIN mass_bins |-> SumSeq(SubSeq(mass_bins, 1, k))])

zeros(n) == array([k \in 1..n |-> 0])

\* self.overdensity: mass_bins over the cube of radial_bins, times a
\* constant; zero where the mass is zero, else its logarithm times bins
Overdensity(mass_bins, radial_bins) ==
    LET bins == Len(radial_bins) - 1
    IN  array([k \in DOMAIN mass_bins |->
                  IF mass_bins[k] = 0 THEN None
                  ELSE Some(bins * log10(mass_bins[k]) - 3 * radial_bins[k])])

\* The virial part of a halo as Halo.__init__ leaves it; fresh tells whether
\* the last call computed the bins.
VirialHalo(indices) ==
    [indices |-> indices, bin_count |-> None, radial_bins |-> None,
     mass_bins |-> None, overdensity |-> None, fresh |-> FALSE]

Dist(h) == {vparticles[i].dist : i \in h.indices[1]}

(***************************************************************************)
(* Halo                                                                    *)
(***************************************************************************)
\* (mutant) whatever was computed last is taken for the bins asked for
cached_any_bins(h, bins) == h.overdensity # None

\* if self.bin_count == bins and self.overdensity is not None: return None
cached(h, bins) == h.bin_count = Some(bins) /\ h.overdensity # None

Halo_virial_info(h, bins) ==
    IF cached(h, bins) THEN h
    ELSE
        LET radial_bins == logspace(Min(Dist(h)), Max(Dist(h)), bins)
            mass_bins == IF Cardinality(h.indices[1]) > 1
                         THEN Binned(h.indices[1], radial_bins)
                         ELSE zeros(bins + 1)
            summed == ForwardSum(mass_bins)
        IN  [h EXCEPT !.bin_count = Some(bins),
                      !.radial_bins = Some(radial_bins),
                      !.mass_bins = Some(summed),
                      !.overdensity = Some(Overdensity(summed, radial_bins)),
                      !.fresh = TRUE]

\* over = (self.overdensity > virial_overdensity); the threshold is held as
\* its logarithm
Over(h, virial_overdensity) ==
    LET bins == Len(h.overdensity[1]) - 1
    IN  {k \in 0..bins :
            /\ h.overdensity[1][k + 1] # None
            /\ h.overdensity[1][k + 1][1] > bins * virial_overdensity}

\* (mutant) the innermost bin over the threshold
pick_first_over(over) == IF over # {} THEN Min(over) ELSE -1

\* max(na.arange(bins+1)[over]), or -1
pick_vir_bin(over) == IF over # {} THEN Max(over) ELSE -1

Halo_virial_bin(h, virial_overdensity, bins) ==
    LET info == Halo_virial_info(h, bins)
    IN  [halo |-> info,
         result |-> pick_vir_bin(Over(info, virial_overdensity))]

Halo_virial_mass(h, virial_overdensity, bins) ==
    LET info == Halo_virial_info(h, bins)
        vir_bin == Halo_virial_bin(info, virial_overdensity, bins)
    IN  [halo |-> vir_bin.halo,
         result |-> IF vir_bin.result # -1
                    THEN vir_bin.halo.mass_bins[1][vir_bin.result + 1]
                    ELSE -1]

Halo_virial_radius(h, virial_overdensity, bins) ==
    LET info == Halo_virial_info(h, bins)
        vir_bin == Halo_virial_bin(info, virial_overdensity, bins)
    IN  [halo |-> vir_bin.halo,
         result |-> IF vir_bin.result # -1
                    THEN vir_bin.halo.radial_bins[1][vir_bin.result + 1]
                    ELSE -1]


(***************************************************************************)
(* parallelHOPHalo.  hs holds the entry of every worker (that of worker r  *)
(* at r + 1); the reductions take what every worker hands in.              *)
(***************************************************************************)
mpi_allmin_int(mine) == Min({mine[s] : s \in DOMAIN mine})
mpi_allmax_int(mine) == Max({mine[s] : s \in DOMAIN mine})
mpi_Allsum_double(mine) ==
    array([k \in DOMAIN mine[1] |->
              SumSeq([s \in DOMAIN mine |-> mine[s][k]])])

\* dist_min, dist_max of a worker: over its particles, or the dummy values
my_dist_min(h) == IF h.indices # None THEN Min(Dist(h)) ELSE max_period
my_dist_max(h) == IF h.indices # None THEN Max(Dist(h)) ELSE 0

\* (mutant) the bins of a worker are built from its own extrema
my_radial_bins_local(hs, s, bins) ==
    logspace(my_dist_min(hs[s]), my_dist_max(hs[s]), bins)

my_radial_bins(hs, s, bins) ==
    logspace(mpi_allmin_int([t \in Slots |-> my_dist_min(hs[t])]),
             mpi_allmax_int([t \in Slots |-> my_dist_max(hs[t])]), bins)

\* the mass_bins a worker hands to the sum
my_mass_bins(hs, s, bins) ==
    IF hs[s].indices # None /\ Cardinality(hs[s].indices[1]) > 1
    THEN ForwardSum(Binned(hs[s].indices[1], my_radial_bins(hs, s, bins)))
    ELSE zeros(bins + 1)

par_virial_info(hs, r, bins) ==
    LET h == hs[r + 1]
    IN  IF cached(h, bins) THEN h
        ELSE
            LET radial_bins == my_radial_bins(hs, r + 1, bins)
                mass_bins == mpi_Allsum_double(
                    array([s \in Slots |-> my_mass_bins(hs, s, bins)]))
            IN  [h EXCEPT !.bin_count = Some(bins),
                          !.radial_bins = Some(radial_bins),
                          !.mass_bins = Some(mass_bins),
                          !.overdensity =
                              Some(Overdensity(mass_bins, radial_bins)),
                          !.fresh = TRUE]

\* the entries after every worker has called virial_info
par_virial_info_all(hs, bins) ==
    array([s \in Slots |-> par_virial_info(hs, s - 1, bins)])

par_virial_bin(hs, r, virial_overdensity, bins) ==
    LET info == par_virial_info(hs, r, bins)
    IN  [halo |-> info,
         result |-> pick_vir_bin(Over(info, virial_overdensity))]

par_virial_mass(hs, r, virial_overdensity, bins) ==
    LET vir_bin == par_virial_bin(par_virial_info_all(hs, bins), r,
                                  virial_overdensity, bins)
    IN  [halo |-> vir_bin.halo,
         result |-> IF vir_bin.result # -1
                    THEN vir_bin.halo.mass_bins[1][vir_bin.result + 1]
                    ELSE -1]

par_virial_radius(hs, r, virial_overdensity, bins) ==
    LET vir_bin == par_virial_bin(par_virial_info_all(hs, bins), r,
                                  virial_overdensity, bins)
    IN  [halo |-> vir_bin.halo,
         result |-> IF vir_bin.result # -1
                    THEN vir_bin.halo.radial_bins[1][vir_bin.result + 1]
                    ELSE -1]

(***************************************************************************)
(* One action for each call: a single partition makes it on the whole halo *)
(* and the workers make it on their entries.                               *)
(***************************************************************************)
\* the thresholds a call may ask for, by their logarithm
Thresholds == {6000, 200000}

\* what a call leaves in vlast; before is the bin count cached when it began
Returned(name, bins, virial_overdensity, serial, parallel) ==
    Some([name |-> name, bins |-> bins, before |-> vserial.bin_count,
          virial_overdensity |-> virial_overdensity,
          serial |-> serial.result,
          parallel |-> [s \in Slots |-> parallel[s].result]])

\* what the call finds: the halo as the last call left it
Called(h) == [h EXCEPT !.fresh = FALSE]
CalledAll(hs) == array([s \in Slots |-> Called(hs[s])])

VirialInfo(bins) ==
    /\ vparticles # <<>>
    /\ \E serial \in {[halo |-> Halo_virial_info(Called(vserial), bins),
                        result |-> 0]},
          parallel \in {[s \in Slots |->
              [halo |-> par_virial_info(CalledAll(vpar), s - 1, bins),
               result |-> 0]]} :
           /\ vserial' = serial.halo
           /\ vpar' = [s \in Slots |-> parallel[s].halo]
           /\ vlast' = Returned("virial_info", bins, 0, serial, parallel)
    /\ UNCHANGED <<vparticles, vwhere>>
    /\ UNCHANGED notVirialVars

VirialBin(virial_overdensity, bins) ==
    /\ vparticles # <<>>
    /\ \E serial \in {Halo_virial_bin(Called(vserial), virial_overdensity,
                                       bins)},
          parallel \in {[s \in Slots |->
              par_virial_bin(CalledAll(vpar), s - 1, virial_overdensity,
                             bins)]} :
           /\ vserial' = serial.halo
           /\ vpar' = [s \in Slots |-> parallel[s].halo]
           /\ vlast' = Returned("virial_bin", bins, virial_overdensity,
                                serial, parallel)
    /\ UNCHANGED <<vparticles, vwhere>>
    /\ UNCHANGED notVirialVars

VirialMass(virial_overdensity, bins) ==
    /\ vparticles # <<>>
    /\ \E serial \in {Halo_virial_mass(Called(vserial), virial_overdensity,
                                        bins)},
          parallel \in {[s \in Slots |->
              par_virial_mass(CalledAll(vpar), s - 1, virial_overdensity,
                              bins)]} :
           /\ vserial' = serial.halo
           /\ vpar' = [s \in Slots |-> parallel[s].halo]
           /\ vlast' = Returned("virial_mass", bins, virial_overdensity,
                                serial, parallel)
    /\ UNCHANGED <<vparticles, vwhere>>
    /\ UNCHANGED notVirialVars

VirialRadius(virial_overdensity, bins) ==
    /\ vparticles # <<>>
    /\ \E serial \in {Halo_virial_radius(Called(vserial), virial_overdensity,
                                          bins)},
          parallel \in {[s \in Slots |->
              par_virial_radius(CalledAll(vpar), s - 1, virial_overdensity,
                                bins)]} :
           /\ vserial' = serial.halo
           /\ vpar' = [s \in Slots |-> parallel[s].halo]
           /\ vlast' = Returned("virial_radius", bins, virial_overdensity,
                                 serial, parallel)
    /\ UNCHANGED <<vparticles, vwhere>>
    /\ UNCHANGED notVirialVars

\* The distances are those to the center of mass: no particle lies farther
\* from it, weighted by its mass, than the others together.
RECURSIVE Moment(_, _)
Moment(ps, S) ==
    IF S = {} THEN 0
    ELSE LET i == CHOOSE j \in S : TRUE
         IN  ps[i].mass * ps[i].dist + Moment(ps, S \ {i})

AboutCenter(ps) ==
    \A i \in DOMAIN ps :
        2 * ps[i].mass * ps[i].dist <= Moment(ps, DOMAIN ps)

VirialLocal(r) == {i \in DOMAIN vparticles : vwhere[i] = r}

InitVirial ==
    /\ \E n \in 1..MaxParticles :
           /\ vparticles \in [1..n -> [mass : Masses, dist : VirialDists]]
           /\ vwhere \in [1..n -> Procs]
    \* the particles of a halo in the order of the workers that hold them,
    \* and those of a worker in the order of their distance and mass
    /\ \A i \in 1..(Len(vwhere) - 1) :
           \/ vwhere[i] < vwhere[i + 1]
           \/ /\ vwhere[i] = vwhere[i + 1]
              /\ \/ vparticles[i].dist < vparticles[i + 1].dist
                 \/ /\ vparticles[i].dist = vparticles[i + 1].dist
                    /\ vparticles[i].mass <= vparticles[i + 1].mass
    /\ AboutCenter(vparticles)
    /\ vserial = VirialHalo(Some(DOMAIN vparticles))
    /\ vpar = [s \in Slots |->
                  VirialHalo(IF VirialLocal(s - 1) = {} THEN None
                             ELSE Some(VirialLocal(s - 1)))]
    /\ vlast = None
    /\ IdleMerge /\ IdleCalls /\ IdleProps /\ IdleExit /\ IdlePad
    /\ IdleDivide /\ IdlePolicy /\ IdleDump /\ IdleList /\ IdlePeak

NextVirial ==
    \/ \E bins \in VirialBinCounts : VirialInfo(bins)
    \/ \E t \in Thresholds, bins \in VirialBinCounts : VirialBin(t, bins)
    \/ \E t \in Thresholds, bins \in VirialBinCounts : VirialMass(t, bins)
    \/ \E t \in Thresholds, bins \in VirialBinCounts : VirialRadius(t, bins)

SpecVirial == InitVirial /\ [][NextVirial]_vars


\* The bins of the cached overdensity that lie strictly above the threshold.
Exceeding(h, virial_overdensity) ==
    {k \in 0..(Len(h.overdensity[1]) - 1) :
        /\ h.overdensity[1][k + 1] # None
        /\ h.overdensity[1][k + 1][1] > h.bin_count[1] * virial_overdensity}

Outermost(h, virial_overdensity) ==
    CHOOSE k \in Exceeding(h, virial_overdensity) :
        \A j \in Exceeding(h, virial_overdensity) : j <= k

\* What the call named name is to return on the halo h it left.
VirialResultRight(name, h, virial_overdensity, result) ==
    IF Exceeding(h, virial_overdensity) = {} THEN result = -1
    ELSE /\ result # -1
         /\ LET k == Outermost(h, virial_overdensity)
            IN  CASE name = "virial_bin" -> result = k
                  [] name = "virial_mass" -> result = h.mass_bins[1][k + 1]
                  [] name = "virial_radius" ->
                         result = h.radial_bins[1][k + 1]

\* C12: virial_bin returns the largest bin index whose overdensity is
\* strictly above the threshold, and -1 when there is none; virial_mass and
\* virial_radius return mass_bins and radial_bins at that index, and -1
\* exactly when there is none; in Halo and in parallelHOPHalo.
C12_VirialBinOutermost ==
    (vlast # None /\ vlast[1].name # "virial_info") =>
        /\ VirialResultRight(vlast[1].name, vserial,
                             vlast[1].virial_overdensity, vlast[1].serial)
        /\ \A s \in Slots :
               VirialResultRight(vlast[1].name, vpar[s],
                                 vlast[1].virial_overdensity,
                                 vlast[1].parallel[s])

\* virial_mass has returned the mass at the outermost of several bins above
\* the threshold, with a bin below the threshold farther out
C12_Witness ==
    /\ vlast # None
    /\ vlast[1].name = "virial_mass"
    /\ Cardinality(Exceeding(vserial, vlast[1].virial_overdensity)) >= 2
    /\ vlast[1].serial > 0
    /\ Outermost(vserial, vlast[1].virial_overdensity) < vlast[1].bins

\* virial_radius has returned the sentinel
C12_WitnessSentinel ==
    /\ vlast # None
    /\ vlast[1].name = "virial_radius"
    /\ vlast[1].serial = -1


\* The virial arrays of h are those of scratch, the halo after the
\* computation for bins from nothing.
ComputedFor(h, bins, scratch) ==
    /\ h.bin_count = Some(bins)
    /\ h.radial_bins = scratch.radial_bins
    /\ h.mass_bins = scratch.mass_bins
    /\ h.overdensity = scratch.overdensity
    /\ Len(h.radial_bins[1]) = bins + 1
    /\ Len(h.mass_bins[1]) = bins + 1
    /\ Len(h.overdensity[1]) = bins + 1

\* the workers' halos as __init__ leaves them
Uncomputed(hs) == array([s \in Slots |-> VirialHalo(hs[s].indices)])

\* The call that turned before into after computed the bins exactly if
\* nothing was cached or the cached bin count was another one.
RecomputedIffNeeded(before, after, bins) ==
    after.fresh <=> (before.overdensity = None \/ before.bin_count # Some(bins))

\* C13: in any sequence of virial calls on a halo, a call computes the
\* radial bins, mass bins and overdensity if and only if nothing is cached
\* or the bin count asked for differs from the cached one; after a call with
\* bin count b the cached arrays have length b + 1 and are those computed
\* for b.
C13_CacheKeyedByBins ==
    [][vlast' # None =>
          \A bins \in {vlast'[1].bins} :
              \A scratch \in {par_virial_info_all(Uncomputed(vpar), bins)} :
                  /\ RecomputedIffNeeded(vserial, vserial', bins)
                  /\ ComputedFor(vserial', bins,
                         Halo_virial_info(VirialHalo(vserial.indices), bins))
                  /\ \A s \in Slots :
                         /\ RecomputedIffNeeded(vpar[s], vpar'[s], bins)
                         /\ ComputedFor(vpar'[s], bins, scratch[s])]_vars

\* a call for 3 bins has computed them on a halo that held those for 2 bins
C13_Witness ==
    /\ vlast # None
    /\ vlast[1].before = Some(2)
    /\ vlast[1].bins = 3
    /\ vserial.fresh
    /\ Len(vserial.mass_bins[1]) = 4
    /\ \A s \in Slots : vpar[s].fresh /\ Len(vpar[s].overdensity[1]) = 4

\* a call has found the bins it asked for in the cache
C13_WitnessCached ==
    /\ vlast # None
    /\ vlast[1].before = Some(vlast[1].bins)
    /\ ~vserial.fresh


NonDecreasing(a) == \A k \in 1..(Len(a) - 1) : a[k] <= a[k + 1]

\* C14: the cumulative mass_bins of a halo never decrease from one bin to
\* the next, in the single-partition computation and, after the global sum,
\* on every worker of the distributed one; a halo of one particle included.
C14_MassBinsNonDecreasing ==
    vlast # None =>
        /\ NonDecreasing(vserial.mass_bins[1])
        /\ \A s \in Slots : NonDecreasing(vpar[s].mass_bins[1])

\* the bins of a halo of several particles rise somewhere, on every worker
C14_Witness ==
    /\ vlast # None
    /\ Len(vparticles) > 1
    /\ \E k \in 1..vlast[1].bins :
           vserial.mass_bins[1][k] < vserial.mass_bins[1][k + 1]
    /\ \A s \in Slots :
           \E k \in 1..vlast[1].bins :
               vpar[s].mass_bins[1][k] < vpar[s].mass_bins[1][k + 1]

\* the bins of a halo of one particle have been computed
C14_WitnessSingle ==
    /\ vlast # None
    /\ Len(vparticles) = 1
    /\ vserial.mass_bins # None


\* C15: in the distributed computation every worker, ghosts included, holds
\* the radial bin edges of the single-partition computation, and the
\* globally summed mass_bins equal the single-partition mass_bins however
\* the particles are split among the workers, a worker holding exactly one
\* particle included; the last bin holds the total mass of the halo.
C15_DistributedMatchesSerial ==
    (vlast # None /\ Len(vparticles) > 1) =>
        \A s \in Slots :
            /\ vpar[s].radial_bins = vserial.radial_bins
            /\ vpar[s].mass_bins = vserial.mass_bins
            /\ vpar[s].mass_bins[1][vlast[1].bins + 1]
                   = MassOf(DOMAIN vparticles)

\* the part of C15 that holds: the edges are the same on every worker
C15_SameEdges ==
    vlast # None =>
        \A s \in Slots : vpar[s].radial_bins = vserial.radial_bins


(***************************************************************************)
(* parallelHF._recursive_divide: the recursive median cut of the domain    *)
(* along the sampled points, on worker 0, and the hand-out of the leaf     *)
(* boxes.  A call is a frame of divide_stack; the frame on top is the call *)
(* that runs next, so the calls run in the order of the recursion.         *)
(*                                                                         *)
(* The cut list is that of _partition_hierarchy_3d_bisection_list: one     *)
(* (dimension, split count) pair per level, each level along a dimension   *)
(* of its own, the split counts being the factors of the worker count.     *)
(* Lengths are in units of which Fine make one histogram bin of the        *)
(* domain, so that every split position is a whole number of them.         *)
(***************************************************************************)
MaxSample == 4
num_bins == 1000
CutDims == {0, 1}
SplitCounts == {2, 3}

RECURSIVE LCM(_)
LCM(S) ==
    IF S = {} THEN 1
    ELSE LET x == CHOOSE y \in S : TRUE
             rest == LCM(S \ {x})
         IN  (x * rest) \div GCD(x, rest)

Fine == LCM({2 * p * c : p \in 1..MaxSample, c \in 1..MaxSample})

\* where a sample point may lie along a dimension: at the left edge of the
\* domain, three quarters into the first histogram bin, in the middle
SampleCoords == {0, (3 * Fine) \div 4, (num_bins \div 2) * Fine}

SamplePoints == [CutDims -> SampleCoords]

CutLists ==
    {c \in UNION {[1..n -> CutDims \X SplitCounts] :
                      n \in 1..Cardinality(CutDims)} :
        \A i, j \in DOMAIN c : i # j => c[i][1] # c[j][1]}

\* topbounds = na.array([[0., 0., 0.], period])
topbounds ==
    <<[d \in CutDims |-> 0], [d \in CutDims |-> num_bins * Fine]>>

RECURSIVE Product(_)
Product(c) == IF c = <<>> THEN 1 ELSE Head(c)[2] * Product(Tail(c))

\* counts, bins = na.histogram(points[:,dim], bins): the bin of a point;
\* the last bin holds its right edge too
histogram_bin(x, left, bin_width) ==
    IF (x - left) \div bin_width >= num_bins THEN num_bins - 1
    ELSE (x - left) \div bin_width

\* sum(counts[:bin]) over the points that the histogram counts
counts_below(points, dim, bounds, bin) ==
    LET bin_width == (bounds[2][dim] - bounds[1][dim]) \div num_bins
    IN  Cardinality({i \in points :
            /\ root_points[i][dim] >= bounds[1][dim]
            /\ root_points[i][dim] <= bounds[2][dim]
            /\ histogram_bin(root_points[i][dim], bounds[1][dim], bin_width)
                   < bin})

\* the points that the histogram counts
counted(points, dim, bounds) ==
    {i \in points : /\ root_points[i][dim] >= bounds[1][dim]
                    /\ root_points[i][dim] <= bounds[2][dim]}

\* while sum < ((parts*step)/cut_list[level][1]): ... bin += 1
\* The value of bin when the loop of this step ends: the first bin count
\* whose counts add up to the target, None if the counts never do
\* (counts[bin] is then read past the last bin).  The targets do not
\* decrease from step to step, so it is the bin that the loop reaches from
\* where the step before left it; and the sum changes only past the bin of
\* a point.
bin_reached(points, dim, bounds, target) ==
    LET bin_width == (bounds[2][dim] - bounds[1][dim]) \div num_bins
        enough == {b \in {0} \cup
                         {histogram_bin(root_points[i][dim], bounds[1][dim],
                                        bin_width) + 1 :
                              i \in counted(points, dim, bounds)} :
                      counts_below(points, dim, bounds, b) >= target}
    IN  IF enough = {} THEN None ELSE Some(Min(enough))

\* a = float(sum - lastsum) / (right_edge - left_edge)
\* midpoints.append(left_edge + (0.5 - (float(lastsum) / parts / 2)) / a)
linear_approx(left_edge, bin_width, parts, lastsum, sum_) ==
    left_edge
        + (bin_width * (parts - lastsum)) \div (2 * parts * (sum_ - lastsum))

\* One pass of the loop over the steps: what it raises, "" if nothing.
\* lastsum is bound by the first pass of the inner loop only, so it is
\* unbound as long as bin is 0.
split_raises(points, dim, bounds, step, splits) ==
    LET bin == bin_reached(points, dim, bounds,
                           (Cardinality(points) * step) \div splits)
    IN  IF bin = None THEN "IndexError"
        ELSE IF bin[1] = 0 THEN "UnboundLocalError"
        ELSE ""

\* the split position of a pass that raises nothing
split_position(points, dim, bounds, step, splits) ==
    LET parts == Cardinality(points)
        bin_width == (bounds[2][dim] - bounds[1][dim]) \div num_bins
        bin == bin_reached(points, dim, bounds, (parts * step) \div splits)[1]
    IN  linear_approx(bounds[1][dim] + (bin - 1) * bin_width,
                      bin_width, parts,
                      counts_below(points, dim, bounds, bin - 1),
                      counts_below(points, dim, bounds, bin))

\* what the first pass that raises raises
DivideRaised(points, dim, bounds, splits) ==
    LET raising == {step \in 1..(splits - 1) :
                       split_raises(points, dim, bounds, step, splits) # ""}
    IN  IF raising = {} THEN ""
        ELSE split_raises(points, dim, bounds, Min(raising), splits)

\* midpoints = [bounds[0][dim]] ... midpoints.append(bounds[1][dim])
midpoints(points, dim, bounds, splits) ==
    <<bounds[1][dim]>>
        \o array([step \in 1..(splits - 1) |->
                     split_position(points, dim, bounds, step, splits)])
        \o <<bounds[2][dim]>>

\* (mutant) the sub-box keeps the right bound of the box it was cut from
subbound_open(bounds, dim, left, right) ==
    <<[bounds[1] EXCEPT ![dim] = left], bounds[2]>>

\* nb = bounds.copy(); nb[0][dim] = pair[0]; nb[1][dim] = pair[1]
subbound(bounds, dim, left, right) ==
    <<[bounds[1] EXCEPT ![dim] = left], [bounds[2] EXCEPT ![dim] = right]>>

\* select = na.bitwise_and(points[:,dim] >= pair[0], points[:,dim] < pair[1])
select(points, dim, left, right) ==
    {i \in points : root_points[i][dim] >= left /\ root_points[i][dim] < right}

\* the calls that a call at this level makes, in the order it makes them
Subcalls(frame, dim, mids) ==
    array([k \in 1..(Len(mids) - 1) |->
              [points |-> select(frame.points, dim, mids[k], mids[k + 1]),
               bounds |-> subbound(frame.bounds, dim, mids[k], mids[k + 1]),
               level |-> frame.level + 1]])

Bounds(frames) == array([k \in DOMAIN frames |-> frames[k].bounds])

\* One call of _recursive_divide, that of the frame on top of the stack.
RecursiveDivide ==
    /\ divide_status = "running"
    /\ divide_stack # <<>>
    /\ LET frame == Head(divide_stack)
           dim == cut_list[frame.level + 1][1]
           splits == cut_list[frame.level + 1][2]
           raised == DivideRaised(frame.points, dim, frame.bounds, splits)
           mids == midpoints(frame.points, dim, frame.bounds, splits)
           maxlevel == Len(cut_list) - 1
       IN  IF raised # ""
           THEN /\ divide_status' = raised
                /\ divided' = None
                /\ UNCHANGED <<divide_stack, bucket_bounds>>
           ELSE /\ divided' = Some([bounds |-> frame.bounds, dim |-> dim,
                                    midpoints |-> mids])
                /\ IF frame.level = maxlevel
                   THEN /\ bucket_bounds' = bucket_bounds
                                \o Bounds(Subcalls(frame, dim, mids))
                        /\ divide_stack' = Tail(divide_stack)
                   ELSE /\ divide_stack' = Subcalls(frame, dim, mids)
                                \o Tail(divide_stack)
                        /\ UNCHANGED bucket_bounds
                /\ divide_status' = IF divide_stack' = <<>> THEN "returned"
                                    ELSE "running"
    /\ UNCHANGED <<root_points, cut_list, my_bounds>>
    /\ UNCHANGED notDivideVars

\* self.bucket_bounds = self._mpi_bcast_pickled(self.bucket_bounds)
\* my_bounds = self.bucket_bounds[self._mpi_get_rank()]
\* on each of the workers, as many as the split counts multiply to
HandOut ==
    /\ divide_status = "returned"
    /\ LET size == Product(cut_list)
       IN  IF size <= Len(bucket_bounds)
           THEN /\ my_bounds' = [r \in 0..(size - 1) |-> bucket_bounds[r + 1]]
                /\ divide_status' = "handed out"
           ELSE /\ divide_status' = "IndexError"
                /\ UNCHANGED my_bounds
    /\ UNCHANGED <<root_points, cut_list, divide_stack, bucket_bounds, divided>>
    /\ UNCHANGED notDivideVars

\* the sample points in an order of their coordinates: which of two equal
\* samples comes first makes no difference to any call
SampleLeq(p, q) == p[0] < q[0] \/ (p[0] = q[0] /\ p[1] <= q[1])

InitDivide ==
    /\ \E n \in 0..MaxSample :
           /\ root_points \in [1..n -> SamplePoints]
           /\ \A i \in 1..(n - 1) :
                  SampleLeq(root_points[i], root_points[i + 1])
    /\ cut_list \in CutLists
    /\ divide_stack = <<[points |-> DOMAIN root_points, bounds |-> topbounds,
                         level |-> 0]>>
    /\ bucket_bounds = <<>>
    /\ divide_status = "running"
    /\ divided = None
    /\ my_bounds = <<>>
    /\ IdleMerge /\ IdleCalls /\ IdleProps /\ IdleExit /\ IdlePad
    /\ IdleVirial /\ IdlePolicy /\ IdleDump /\ IdleList /\ IdlePeak

NextDivide == RecursiveDivide \/ HandOut

SpecDivide == InitDivide /\ [][NextDivide]_vars


\* the coordinates along dim at which a leaf box or the domain begins or ends
Faces(boxes, dim) ==
    {boxes[k][1][dim] : k \in DOMAIN boxes}
        \cup {boxes[k][2][dim] : k \in DOMAIN boxes}
        \cup {topbounds[1][dim], topbounds[2][dim]}

\* the stretches between one face and the next along dim
Stretches(boxes, dim) ==
    {s \in Faces(boxes, dim) \X Faces(boxes, dim) :
        /\ s[1] < s[2]
        /\ \A x \in Faces(boxes, dim) : ~(s[1] < x /\ x < s[2])}

\* Every cell of the grid that the faces draw lies in exactly one box if it
\* is in the domain, and in none if it is not: the boxes have disjoint
\* interiors and their union is the domain.
Tiles(boxes) ==
    \A cell \in [CutDims -> UNION {Stretches(boxes, d) : d \in CutDims}] :
        (\A d \in CutDims : cell[d] \in Stretches(boxes, d)) =>
            LET holding == {k \in DOMAIN boxes :
                               \A d \in CutDims :
                                   /\ boxes[k][1][d] <= cell[d][1]
                                   /\ cell[d][2] <= boxes[k][2][d]}
                inside == \A d \in CutDims :
                              /\ topbounds[1][d] <= cell[d][1]
                              /\ cell[d][2] <= topbounds[2][d]
            IN  Cardinality(holding) = (IF inside THEN 1 ELSE 0)

\* C16: the leaf boxes that _recursive_divide appends have pairwise disjoint
\* interiors and their union is the domain box; the split positions of every
\* call do not decrease along the cut dimension and lie between the bounds
\* of the box that the call splits; worker r is handed the r-th leaf box.
C16_LeavesTileDomain ==
    /\ divide_status \in {"returned", "handed out"} => Tiles(bucket_bounds)
    /\ divided # None =>
           /\ NonDecreasing(divided[1].midpoints)
           /\ \A k \in DOMAIN divided[1].midpoints :
                  /\ divided[1].bounds[1][divided[1].dim]
                         <= divided[1].midpoints[k]
                  /\ divided[1].midpoints[k]
                         <= divided[1].bounds[2][divided[1].dim]
    /\ divide_status = "handed out" =>
           /\ DOMAIN my_bounds = 0..(Len(bucket_bounds) - 1)
           /\ \A r \in DOMAIN my_bounds : my_bounds[r] = bucket_bounds[r + 1]

\* a cut list of two levels has given each worker a leaf box of its own,
\* none of them flat
C16_Witness ==
    /\ divide_status = "handed out"
    /\ Len(cut_list) = 2
    /\ Len(bucket_bounds) >= 4
    /\ \A k \in DOMAIN bucket_bounds :
           \A d \in CutDims : bucket_bounds[k][1][d] < bucket_bounds[k][2][d]
    /\ \A r, q \in DOMAIN my_bounds : r # q => my_bounds[r] # my_bounds[q]

\* C17: for every cut list and every set of sample points, a sub-box with
\* no or one sample point and points that all fall into one histogram bin
\* included, _recursive_divide returns at depth len(cut_list) without an
\* error, having appended as many leaf boxes as the split counts multiply
\* to, one per worker.
C17_DivideCompletes ==
    /\ divide_status \in {"running", "returned", "handed out"}
    /\ divide_status \in {"returned", "handed out"} =>
           Len(bucket_bounds) = Product(cut_list)

\* the part of C17 that holds: a divide that returns has appended one leaf
\* box per worker, and no call ran below the depth of the cut list
C17_ReturnedComplete ==
    /\ divide_status \in {"returned", "handed out"} =>
           Len(bucket_bounds) = Product(cut_list)
    /\ \A k \in DOMAIN divide_stack : divide_stack[k].level < Len(cut_list)


(***************************************************************************)
(* parallelHF.__init__ on one worker of mpi_size, from the choice of the   *)
(* padding to its hand-off to parallelHOPHaloList.__init__.  hist[dim] are *)
(* the counts of the worker's particles along dim in bins one base padding *)
(* wide.  A padding is                                                     *)
(*     num_neighbors**(1./3.) * safety * (vol / count)**(1./3.),           *)
(* and is held by the fraction vol / count in lowest terms, vol in bins    *)
(* cubed.                                                                  *)
(***************************************************************************)
Ratio(vol, count) == <<vol \div GCD(vol, count), count \div GCD(vol, count)>>

\* na.ones(3,dtype='float64')*padding, na.zeros(3,dtype='float64')
ones_times(value) == [dim \in Dims |-> value]
zero_padding == <<ones_times(<<0, 1>>), ones_times(<<0, 1>>)>>

\* vol = l[0] * l[1] * l[2]
full_vol(h) == Len(h[1]) * Len(h[2]) * Len(h[3])

\* the area of the face across dim
face_area(h, dim) == full_vol(h) \div Len(h[dim])

\* the padding of avg_spacing = (float(vol) / data.size)**(1./3.)
base_padding(h) == Ratio(full_vol(h), SumSeq(h[1]))

\* start = 0; count = counts[0]
\* while count < self.num_neighbors: start += 1; count += counts[start]
\* The bins walked and the particles in them, None when the walk runs off
\* the histogram.
RECURSIVE left_side(_, _, _)
left_side(c, start, count) ==
    IF count < num_neighbors
    THEN IF start + 1 >= Len(c) THEN None
         ELSE left_side(c, start + 1, count + c[start + 2])
    ELSE Some([width |-> start + 1, count |-> count])

\* start = -1; count = counts[-1]
\* while count < self.num_neighbors: start -= 1; count += counts[start]
RECURSIVE right_side(_, _, _)
right_side(c, start, count) ==
    IF count < num_neighbors
    THEN IF start - 1 < -Len(c) THEN None
         ELSE right_side(c, start - 1, count + c[Len(c) + start])
    ELSE Some([width |-> -start, count |-> count])

\* vol = area * (bins[start+1] - bins[0]), vol = area * (bins[-1] - bins[start-1])
\* avg_spacing = (float(vol) / count)**(1./3.)
side_padding(h, dim, side) ==
    Ratio(face_area(h, dim) * side[1].width, side[1].count)

\* what the division by data.size and the walks raise, "" if nothing
per_face_raises(h) ==
    IF SumSeq(h[1]) = 0 THEN "ZeroDivisionError"
    ELSE IF \E dim \in Dims :
                \/ left_side(h[dim], 0, h[dim][1]) = None
                \/ right_side(h[dim], -1, h[dim][Len(h[dim])]) = None
    THEN "IndexError"
    ELSE ""

\* self.padding = (LE_padding, RE_padding)
per_face_padding(h) ==
    <<[dim \in Dims |->
          side_padding(h, dim, left_side(h[dim], 0, h[dim][1]))],
      [dim \in Dims |->
          side_padding(h, dim, right_side(h[dim], -1, h[dim][Len(h[dim])]))]>>

uniform_raises(h) == IF SumSeq(h[1]) = 0 THEN "ZeroDivisionError" ELSE ""

\* self.padding = (na.ones(3)*padding, na.ones(3)*padding)
uniform_padding(h) ==
    <<ones_times(base_padding(h)), ones_times(base_padding(h))>>

\* self.padding = 0.0: a number, not a pair of arrays
scalar_padding == <<<<0, 1>>>>

\* self._distributed
policy_distributed == mpi_size > 1

\* if not fancy_padding or subvolume is not None:
uniform_chosen(fancy_on, sub) == ~fancy_on \/ sub # None

\* (mutant) the padding that was computed is kept on one worker too
keep_padding(computed, distributed) == computed

\* if not self._distributed: self.padding = (na.zeros(3), na.zeros(3))
final_padding(computed, distributed) ==
    IF ~distributed THEN zero_padding ELSE computed

\* if not fancy_padding or subvolume is not None: ...
\* elif fancy_padding and self._distributed: ...
ChoosePadding ==
    /\ policy_pc = "padding"
    /\ IF uniform_chosen(fancy, subvolume)
       THEN IF uniform_raises(hist) # ""
            THEN policy_pc' = uniform_raises(hist) /\ UNCHANGED self_padding
            ELSE /\ policy_pc' = "total_mass"
                 /\ self_padding' = uniform_padding(hist)
       ELSE IF fancy /\ policy_distributed
       THEN IF per_face_raises(hist) # ""
            THEN policy_pc' = per_face_raises(hist) /\ UNCHANGED self_padding
            ELSE /\ policy_pc' = "total_mass"
                 /\ self_padding' = per_face_padding(hist)
       ELSE policy_pc' = "total_mass" /\ UNCHANGED self_padding
    /\ UNCHANGED <<mpi_size, fancy, subvolume, hist, handed>>
    /\ UNCHANGED notPolicyVars

\* total_mass = self._mpi_allsum(...), and the padding of a run that is
\* not distributed
PaddingAfterTotalMass ==
    /\ policy_pc = "total_mass"
    /\ self_padding' = final_padding(self_padding, policy_distributed)
    /\ policy_pc' = "hand_off"
    /\ UNCHANGED <<mpi_size, fancy, subvolume, hist, handed>>
    /\ UNCHANGED notPolicyVars

\* (LE_padding, RE_padding) = self.padding
\* parallelHOPHaloList.__init__(self, self._data_source, self.padding, ...)
HandOff ==
    /\ policy_pc = "hand_off"
    /\ handed' = Some(self_padding)
    /\ policy_pc' = "clustering"
    /\ UNCHANGED <<mpi_size, fancy, subvolume, hist, self_padding>>
    /\ UNCHANGED notPolicyVars

InitPolicy ==
    /\ mpi_size \in 1..NumWorkers
    /\ fancy \in BOOLEAN
    /\ subvolume \in {None, Some("region")}
    /\ hist \in [Dims -> Histograms]
    \* the same particles along each dimension
    /\ \A dim \in Dims : SumSeq(hist[dim]) = SumSeq(hist[1])
    \* self.padding = 0.0
    /\ self_padding = scalar_padding
    /\ handed = None
    /\ policy_pc = "padding"
    /\ IdleMerge /\ IdleCalls /\ IdleProps /\ IdleExit /\ IdlePad
    /\ IdleVirial /\ IdleDivide /\ IdleDump /\ IdleList /\ IdlePeak

NextPolicy == ChoosePadding \/ PaddingAfterTotalMass \/ HandOff

SpecPolicy == InitPolicy /\ [][NextPolicy]_vars


\* C18: the padding handed to the clusterer is the flat base padding on
\* every face, left and right, whenever the run has one worker, a subvolume
\* is analyzed or fancy_padding is disabled, and the per-face padding only
\* in a run of several workers without subvolume and with fancy_padding.
C18_UniformOrPerFace ==
    handed # None =>
        handed = Some(IF mpi_size = 1 \/ subvolume # None \/ ~fancy
                      THEN uniform_padding(hist)
                      ELSE per_face_padding(hist))

\* C18 (amended): the padding handed to the clusterer is zero on every face
\* whenever the run has one worker; in a run of several workers it is the
\* flat base padding on every face whenever a subvolume is analyzed or
\* fancy_padding is disabled, and the per-face padding otherwise.
C18_ZeroUniformOrPerFace ==
    handed # None =>
        handed = Some(IF mpi_size = 1 THEN zero_padding
                      ELSE IF subvolume # None \/ ~fancy
                      THEN uniform_padding(hist)
                      ELSE per_face_padding(hist))

\* a run of one worker with fancy_padding disabled has handed on its padding
C18_Witness ==
    /\ handed = Some(zero_padding)
    /\ mpi_size = 1
    /\ ~fancy
    /\ SumSeq(hist[1]) > 0

\* a run of several workers has handed on a per-face padding that is not flat
C18_WitnessPerFace ==
    /\ handed # None
    /\ mpi_size > 1 /\ fancy /\ subvolume = None
    /\ handed # Some(uniform_padding(hist))
    /\ handed[1][1] # handed[1][2]

\* a run of several workers has handed on the flat padding for a subvolume
C18_WitnessUniform ==
    /\ handed # None
    /\ mpi_size > 1 /\ fancy /\ subvolume # None
    /\ handed = Some(uniform_padding(hist))


(***************************************************************************)
(* GenericHaloFinder.dump and LoadHaloes: the summary file, the index file *)
(* and the particle files of a halo list, and the LoadedHaloList read back *)
(* from them.                                                              *)
(*                                                                         *)
(* A float is held as <<hi, lo>>, the whole number hi * 10^5 + lo of some  *)
(* unit: eleven significant digits when hi has six.  A line of a text file *)
(* is held by its whitespace-separated tokens, a number where the token is *)
(* the text of a number; "Halo%08i" % id is held by id, and the name of    *)
(* the particle file of a worker by the rank of the worker.                *)
(***************************************************************************)
NumCarry == 10 ^ 5

NumAdd(a, b) ==
    <<a[1] + b[1] + (a[2] + b[2]) \div NumCarry, (a[2] + b[2]) % NumCarry>>

RECURSIVE NumSum(_)
NumSum(a) == IF a = <<>> THEN <<0, 0>> ELSE NumAdd(Head(a), NumSum(Tail(a)))

\* "%0.9e" % x, read as the number that the text denotes: ten significant
\* digits, the eleventh rounded away
format_e9(x) ==
    IF x[1] < NumCarry THEN x
    ELSE LET kept == x[2] - (x[2] % 10) + (IF x[2] % 10 >= 5 THEN 10 ELSE 0)
         IN  <<x[1] + kept \div NumCarry, kept % NumCarry>>

\* the masses a particle may have: of eleven digits, and of ten
ParticleMasses == {<<100000, 3>>, <<30000, 1>>}

ParticleFields ==
    {"particle_position_x", "particle_position_y", "particle_position_z",
     "particle_velocity_x", "particle_velocity_y", "particle_velocity_z",
     "particle_index", "ParticleMassMsun"}

\* self[field] of a particle of a halo being dumped
FieldOf(p, field) ==
    IF field = "ParticleMassMsun" THEN p.mass
    ELSE IF field = "particle_index" THEN p.index
    ELSE <<p.index, 0>>

\* the statistics of a halo that ran through the merge: column c of its
\* summary line, eleven digits each and no two alike
DumpStat(id, c) == <<100000 + 100 * id + c, 7>>

\* A halo of the list being dumped: its particles on each worker, and what
\* its methods return.
DumpedHalo(id, holders, tasks, mass) ==
    LET parts == [r \in Procs |->
                     IF r \in holders
                     THEN <<[index |-> 10 * id + r, mass |-> mass]>>
                     ELSE <<>>]
    IN  [id |-> id,
         tasks |-> IF tasks THEN Some(SortedSeq(holders)) ELSE None,
         owner |-> CHOOSE r \in holders : TRUE,
         parts |-> parts,
         size |-> Cardinality(holders),
         total_mass |-> NumSum([k \in 1..Cardinality(holders) |-> mass]),
         max_dens_point |-> [c \in 1..4 |-> DumpStat(id, c)],
         CoM |-> [c \in 1..3 |-> DumpStat(id, 4 + c)],
         bulk_vel |-> [c \in 1..3 |-> DumpStat(id, 7 + c)],
         max_radius |-> DumpStat(id, 11),
         rms_vel |-> DumpStat(id, 12)]

\* f.write("%10i\t" % group.id) ... f.write("%0.9e\t" % group.rms_velocity())
summary_line(group) ==
    [comment |-> FALSE,
     tokens |-> <<group.id, format_e9(group.total_mass), group.size,
                  format_e9(group.max_dens_point[1])>>
                \o [c \in 1..3 |-> format_e9(group.max_dens_point[c + 1])]
                \o [c \in 1..3 |-> format_e9(group.CoM[c])]
                \o [c \in 1..3 |-> format_e9(group.bulk_vel[c])]
                \o <<format_e9(group.max_radius), format_e9(group.rms_vel)>>]

\* f.write("# HALOS FOUND WITH %s\n" % (self._name)), the names of the
\* columns, and a line for each group
HaloList_write_out(halo_list) ==
    <<[comment |-> TRUE, tokens |-> <<>>], [comment |-> TRUE, tokens |-> <<>>]>>
        \o array([k \in DOMAIN halo_list |-> summary_line(halo_list[k])])

\* (mutant) the index names the file of the owner, task map or none
index_line_owner(group) == <<group.id, group.owner>>

\* gn = "Halo%08i" % (group.id); f.write("%s %s\n" % (gn, fn)), the line as
\* line.split() gives it back
index_line(group) ==
    <<group.id>>
        \o (IF group.tasks # None THEN group.tasks[1]
            ELSE IF dump_distributed THEN <<group.owner>>
            ELSE <<0>>)

write_particle_lists_txt(halo_list) ==
    array([k \in DOMAIN halo_list |-> index_line(halo_list[k])])

\* self._is_mine(halo) on worker r
is_mine(halo, r) ==
    IF halo.tasks # None THEN \E k \in DOMAIN halo.tasks[1] : halo.tasks[1][k] = r
    ELSE halo.owner = r

\* Halo.write_particle_list: the datasets of the group of the halo
write_particle_list(halo, r, with_creation_time) ==
    [field \in ParticleFields
             \cup (IF with_creation_time THEN {"creation_time"} ELSE {}) |->
        array([k \in DOMAIN halo.parts[r] |-> FieldOf(halo.parts[r][k], field)])]

\* the file that worker r writes: the group of every halo that is its own
write_particle_lists(halo_list, r, with_creation_time) ==
    [id \in {halo_list[k].id : k \in {j \in DOMAIN halo_list : is_mine(halo_list[j], r)}} |->
        write_particle_list(
            halo_list[CHOOSE k \in DOMAIN halo_list : halo_list[k].id = id],
            r, with_creation_time)]

\* locations.append(line[1:]) for each line of the index file
collect_halo_data_locations(txt) == array([k \in DOMAIN txt |-> Tail(txt[k])])

\* (mutant) the maximum radius and the RMS velocity are read from each
\* other's column
LoadedHalo_swapped(halo, line, fnames) ==
    [id |-> halo, size |-> line[3],
     CoM |-> <<line[8], line[9], line[10]>>,
     max_dens_point |-> <<line[4], line[5], line[6], line[7]>>,
     group_total_mass |-> line[2],
     max_radius |-> line[15],
     bulk_vel |-> <<line[11], line[12], line[13]>>,
     rms_vel |-> line[14],
     fnames |-> fnames,
     saved_fields |-> <<>>]

\* size = int(line[2]) ... rms_vel = float(line[14]), fnames = locations[halo]
\* self._groups.append(LoadedHalo(halo, size, CoM, max_dens_point,
\*     group_total_mass, max_radius, bulk_vel, rms_vel, fnames))
\* line holds the tokens of the line, line[0] first
LoadedHalo(halo, line, fnames) ==
    [id |-> halo, size |-> line[3],
     CoM |-> <<line[8], line[9], line[10]>>,
     max_dens_point |-> <<line[4], line[5], line[6], line[7]>>,
     group_total_mass |-> line[2],
     max_radius |-> line[14],
     bulk_vel |-> <<line[11], line[12], line[13]>>,
     rms_vel |-> line[15],
     fnames |-> fnames,
     saved_fields |-> <<>>]

\* if line[0] == "#": continue
RECURSIVE DataLines(_)
DataLines(out) ==
    IF out = <<>> THEN <<>>
    ELSE (IF Head(out).comment THEN <<>> ELSE <<Head(out)>>)
             \o DataLines(Tail(out))

\* LoadedHaloList._retrieve_halos: halo counts the lines that are not
\* comments
retrieve_halos(out, txt) ==
    LET locations == collect_halo_data_locations(txt)
    IN  array([k \in DOMAIN DataLines(out) |->
                  LoadedHalo(k - 1, DataLines(out)[k].tokens, locations[k])])

RECURSIVE Concat(_)
Concat(arrays) ==
    IF arrays = <<>> THEN <<>> ELSE Head(arrays) \o Concat(Tail(arrays))

\* (mutant) the field is read from the first file only
get_first_file_data(files, halo, fnames, field) ==
    IF field \notin DOMAIN files[fnames[1]][halo] THEN None
    ELSE Some(files[fnames[1]][halo][field])

\* LoadedHalo._get_particle_data: None if the group of the halo in the
\* first file has no such field, else the arrays of the files one after
\* the other
get_particle_data(files, halo, fnames, field) ==
    IF field \notin DOMAIN files[fnames[1]][halo] THEN None
    ELSE Some(Concat([k \in DOMAIN fnames |-> files[fnames[k]][halo][field]]))

\* LoadedHalo.__getitem__: the halo after the request, what the request
\* returns, and whether the files were opened
LoadedHalo_getitem(files, halo, key) ==
    IF key \in DOMAIN halo.saved_fields
    THEN [halo |-> halo, result |-> Some(halo.saved_fields[key]),
          opened |-> FALSE]
    ELSE LET field_data == get_particle_data(files, halo.id, halo.fnames, key)
         IN  IF field_data # None
             THEN [halo |-> [halo EXCEPT !.saved_fields =
                                 (key :> field_data[1]) @@ halo.saved_fields],
                   result |-> field_data, opened |-> TRUE]
             ELSE [halo |-> halo, result |-> None, opened |-> TRUE]

\* self.write_out("%s.out" % basename), on the root worker
WriteOut ==
    /\ dump_pc = "dump"
    /\ out_file' = Some(HaloList_write_out(dump_groups))
    /\ dump_pc' = "write_particle_lists"
    /\ UNCHANGED <<dump_groups, dump_distributed, creation_time, txt_file, h5_files, loaded,
                   requested>>
    /\ UNCHANGED notDumpVars

\* self.write_particle_lists(basename), on every worker
WriteParticleLists ==
    /\ dump_pc = "write_particle_lists"
    /\ h5_files' = Some([r \in Procs |->
                            write_particle_lists(dump_groups, r, creation_time)])
    /\ dump_pc' = "write_particle_lists_txt"
    /\ UNCHANGED <<dump_groups, dump_distributed, creation_time, out_file, txt_file, loaded,
                   requested>>
    /\ UNCHANGED notDumpVars

\* self.write_particle_lists_txt(basename), on the root worker
WriteParticleListsTxt ==
    /\ dump_pc = "write_particle_lists_txt"
    /\ txt_file' = Some(write_particle_lists_txt(dump_groups))
    /\ dump_pc' = "dumped"
    /\ UNCHANGED <<dump_groups, dump_distributed, creation_time, out_file, h5_files, loaded,
                   requested>>
    /\ UNCHANGED notDumpVars

\* LoadHaloes(basename)
LoadHaloes ==
    /\ dump_pc = "dumped"
    /\ loaded' = retrieve_halos(out_file[1], txt_file[1])
    /\ dump_pc' = "loaded"
    /\ UNCHANGED <<dump_groups, dump_distributed, creation_time, out_file, txt_file, h5_files,
                   requested>>
    /\ UNCHANGED notDumpVars

\* halos[k - 1][key]
GetItem(k, key) ==
    /\ dump_pc = "loaded"
    /\ k \in DOMAIN loaded
    /\ LET got == LoadedHalo_getitem(h5_files[1], loaded[k], key)
       IN  /\ loaded' = [loaded EXCEPT ![k] = got.halo]
           /\ requested' = Some([halo |-> k, key |-> key,
                                 result |-> got.result, opened |-> got.opened])
    /\ UNCHANGED <<dump_groups, dump_distributed, creation_time, out_file, txt_file, h5_files,
                   dump_pc>>
    /\ UNCHANGED notDumpVars

\* the halos of a list that went through the merge: halo.id = i in the
\* order of the list; on each worker that holds particles of a halo, one
\* particle; a halo of parallel HOP names its tasks, any other its owner;
\* in a run that is not distributed worker 0 holds every particle
DumpedHalos(id) ==
    {DumpedHalo(id, holders, tasks, mass) :
        holders \in (SUBSET Procs) \ {{}}, tasks \in BOOLEAN,
        mass \in ParticleMasses}

HaloLists(n) ==
    {halo_list \in [1..n -> UNION {DumpedHalos(id) : id \in 0..(n - 1)}] :
        \A k \in 1..n :
            /\ halo_list[k].id = k - 1
            /\ halo_list[k].tasks = None => halo_list[k].size = 1}

\* the lists of a run of one worker
OnRoot(halo_list) ==
    \A k \in DOMAIN halo_list :
        \A r \in Procs : halo_list[k].parts[r] # <<>> => r = 0

InitDump ==
    /\ \E n \in 0..MaxHalos : dump_groups \in HaloLists(n)
    /\ dump_distributed \in BOOLEAN
    /\ ~dump_distributed => OnRoot(dump_groups)
    /\ creation_time \in BOOLEAN
    /\ out_file = None
    /\ txt_file = None
    /\ h5_files = None
    /\ loaded = <<>>
    /\ requested = None
    /\ dump_pc = "dump"
    /\ IdleMerge /\ IdleCalls /\ IdleProps /\ IdleExit /\ IdlePad
    /\ IdleVirial /\ IdleDivide /\ IdlePolicy /\ IdleList /\ IdlePeak

NextDump ==
    \/ WriteOut
    \/ WriteParticleLists
    \/ WriteParticleListsTxt
    \/ LoadHaloes
    \/ \E k \in 1..MaxHalos : GetItem(k, "ParticleMassMsun")

SpecDump == InitDump /\ [][NextDump]_vars

\* the keys asked of a loaded halo: two that the files always hold, one
\* that they may hold, one that they never hold
RequestKeys ==
    {"ParticleMassMsun", "particle_index", "creation_time", "particle_type"}

\* a halo list of one halo, dumped and loaded
InitField ==
    /\ dump_groups \in HaloLists(1)
    /\ dump_distributed \in BOOLEAN
    /\ ~dump_distributed => OnRoot(dump_groups)
    /\ creation_time \in BOOLEAN
    /\ out_file = Some(HaloList_write_out(dump_groups))
    /\ txt_file = Some(write_particle_lists_txt(dump_groups))
    /\ h5_files = Some([r \in Procs |->
                           write_particle_lists(dump_groups, r, creation_time)])
    /\ loaded = retrieve_halos(out_file[1], txt_file[1])
    /\ requested = None
    /\ dump_pc = "loaded"
    /\ IdleMerge /\ IdleCalls /\ IdleProps /\ IdleExit /\ IdlePad
    /\ IdleVirial /\ IdleDivide /\ IdlePolicy /\ IdleList /\ IdlePeak

NextField == \E key \in RequestKeys : GetItem(1, key)

SpecField == InitField /\ [][NextField]_vars


\* the k-th line of the summary file that is not a comment
SummaryLine(k) == DataLines(out_file[1])[k].tokens

\* two numbers no further apart than half a unit of the tenth digit
NumClose(a, b) ==
    /\ a[1] - b[1] \in {-1, 0, 1}
    /\ (a[1] - b[1]) * NumCarry + a[2] - b[2] \in -5..5

\* the workers that hold particles of a dumped halo, in the order of rank
FilesOf(group) == SortedSeq({r \in Procs : group.parts[r] # <<>>})

\* The reloaded list has a halo for each dumped halo, in the same order,
\* with the id, particle count and statistics of its summary line, which
\* are those of the dumped halo to ten digits, and the particle files of
\* its index line, which are those of the workers that hold its particles.
ReloadedAsDumped ==
    /\ Len(loaded) = Len(dump_groups)
    /\ \A k \in DOMAIN loaded :
           /\ loaded[k].id = SummaryLine(k)[1]
           /\ loaded[k].id = dump_groups[k].id
           /\ loaded[k].size = SummaryLine(k)[3]
           /\ loaded[k].size = dump_groups[k].size
           /\ loaded[k].group_total_mass = SummaryLine(k)[2]
           /\ NumClose(loaded[k].group_total_mass, dump_groups[k].total_mass)
           /\ loaded[k].max_dens_point = SubSeq(SummaryLine(k), 4, 7)
           /\ \A c \in 1..4 : NumClose(loaded[k].max_dens_point[c],
                                       dump_groups[k].max_dens_point[c])
           /\ loaded[k].CoM = SubSeq(SummaryLine(k), 8, 10)
           /\ \A c \in 1..3 : NumClose(loaded[k].CoM[c], dump_groups[k].CoM[c])
           /\ loaded[k].bulk_vel = SubSeq(SummaryLine(k), 11, 13)
           /\ \A c \in 1..3 : NumClose(loaded[k].bulk_vel[c],
                                       dump_groups[k].bulk_vel[c])
           /\ loaded[k].max_radius = SummaryLine(k)[14]
           /\ NumClose(loaded[k].max_radius, dump_groups[k].max_radius)
           /\ loaded[k].rms_vel = SummaryLine(k)[15]
           /\ NumClose(loaded[k].rms_vel, dump_groups[k].rms_vel)
           /\ loaded[k].fnames = Tail(txt_file[1][k])
           /\ loaded[k].fnames = FilesOf(dump_groups[k])

\* the total mass of the k-th reloaded halo, summed over its reloaded
\* particle masses
Recomputed(k) == NumSum(loaded[k].saved_fields["ParticleMassMsun"])

HasMasses(k) == "ParticleMassMsun" \in DOMAIN loaded[k].saved_fields

\* C19: after dump and LoadHaloes the reloaded list has one halo per dumped
\* halo, in the same order; the k-th reloaded halo has the id, particle
\* count, total mass, density-peak record, center of mass, bulk velocity,
\* maximum radius and RMS velocity of the k-th summary line and the
\* particle files of the k-th index line, and the total mass recomputed
\* from its reloaded particle masses equals the dumped total mass.
C19_RoundTripExact ==
    dump_pc = "loaded" =>
        /\ ReloadedAsDumped
        /\ \A k \in DOMAIN loaded :
               HasMasses(k) => Recomputed(k) = loaded[k].group_total_mass

\* C19 (amended): as C19, but the total mass recomputed from the reloaded
\* particle masses equals the dumped total mass to the ten significant
\* digits that the summary line holds, no further from it than half a unit
\* of the tenth digit.
C19_RoundTripToTenDigits ==
    dump_pc = "loaded" =>
        /\ ReloadedAsDumped
        /\ \A k \in DOMAIN loaded :
               HasMasses(k) =>
                   /\ NumClose(Recomputed(k), loaded[k].group_total_mass)
                   /\ Recomputed(k) = dump_groups[k].total_mass

\* two halos were dumped and reloaded, the second from the files of two
\* workers, and its recomputed mass has an eleventh digit that the summary
\* line does not hold
C19_Witness ==
    /\ dump_pc = "loaded"
    /\ Len(loaded) = 2
    /\ Len(loaded[2].fnames) = 2
    /\ HasMasses(2)
    /\ Recomputed(2) # loaded[2].group_total_mass

\* a halo was reloaded whose recomputed mass is the dumped one, digit by digit
C19_WitnessExact ==
    /\ dump_pc = "loaded"
    /\ \E k \in DOMAIN loaded :
           HasMasses(k) /\ Recomputed(k) = loaded[k].group_total_mass


\* the arrays of a field in the files of a loaded halo, one after the other
\* in the order of its index line
InFileOrder(halo, key) ==
    Concat([k \in DOMAIN halo.fnames |->
               h5_files[1][halo.fnames[k]][halo.id][key]])

\* the fields that the particle files of a loaded halo hold
FieldsInFiles(halo) == DOMAIN h5_files[1][halo.fnames[1]][halo.id]

C20_WitnessAbsent ==
    /\ requested # None
    /\ requested[1].key \notin FieldsInFiles(loaded[1])
    /\ requested[1].result = None
    /\ DOMAIN loaded[1].saved_fields = {"ParticleMassMsun"}

\* the workers whose particle file holds a group of the halo
WrittenFor(group) == {r \in Procs : group.id \in DOMAIN h5_files[1][r]}

\* the files that a line of the index file names
NamedOn(line) == {line[k] : k \in 2..Len(line)}

\* the files the index is to name for a halo, in order
FilesToName(group) ==
    IF group.tasks # None THEN group.tasks[1]
    ELSE IF dump_distributed THEN <<group.owner>>
    ELSE <<0>>

\* C21: write_particle_lists_txt writes one line per halo, in list order,
\* naming the group by the current id of the halo and then its files: one
\* per worker of the task map if there is one, else the file of the owner in
\* a distributed run, else the single file; the files named for a halo are
\* exactly those into which write_particle_lists wrote a group for it.
C21_IndexNamesWrittenFiles ==
    txt_file # None =>
        /\ Len(txt_file[1]) = Len(dump_groups)
        /\ \A k \in DOMAIN dump_groups :
               /\ txt_file[1][k][1] = dump_groups[k].id
               /\ Tail(txt_file[1][k]) = FilesToName(dump_groups[k])
               /\ NamedOn(txt_file[1][k]) = WrittenFor(dump_groups[k])

\* the index of a distributed run was written for a halo with a task map of
\* two workers and a halo without task map that worker 1 owns
C21_Witness ==
    /\ txt_file # None
    /\ dump_distributed
    /\ Len(dump_groups) = 2
    /\ dump_groups[1].tasks # None
    /\ Len(dump_groups[1].tasks[1]) = 2
    /\ dump_groups[2].tasks = None
    /\ dump_groups[2].owner = 1
    /\ WrittenFor(dump_groups[2]) = {1}

\* the index of a run that is not distributed was written
C21_WitnessSingle ==
    /\ txt_file # None
    /\ ~dump_distributed
    /\ Len(dump_groups) > 0
    /\ dump_groups[1].tasks = None

\* The position x + k is a periodic image of x no further than half a
\* period from the reference point.
NearImage(x, k, ref) ==
    LET away == abs(Sub(Add(x, Q(k)), ref))
    IN  ~Less(<<1, 2>>, away)

\* center is, along each dimension, the mean, weighted by the masses, of
\* periodic images of the particles that lie no further than half a period
\* from ref.
UnwrappedMean(center, ref) ==
    \A d \in Dims :
        \E k \in [DOMAIN particles -> {-1, 0, 1}] :
            /\ \A i \in DOMAIN particles :
                   NearImage(particles[i].particle_position[d], k[i], ref[d])
            /\ center[d] =
                   Div(sum([i \in DOMAIN particles |->
                               Mul(Add(particles[i].particle_position[d],
                                       Q(k[i])),
                                   particles[i].ParticleMassMsun)]),
                       sum([i \in DOMAIN particles |->
                               particles[i].ParticleMassMsun]))

\* the mean of the positions as they are, weighted by the masses
RawMean(d) ==
    Div(sum([i \in DOMAIN particles |->
                Mul(particles[i].particle_position[d],
                    particles[i].ParticleMassMsun)]),
        sum([i \in DOMAIN particles |-> particles[i].ParticleMassMsun]))

\* the density peak, and the first particle of an FOF halo
ReferencePoint == particles[1].particle_position

C22_WitnessFOF ==
    /\ props.op = "fof_center_of_mass"
    /\ Len(particles) = 2
    /\ particles[1].ParticleMassMsun = particles[2].ParticleMassMsun
    /\ {particles[1].particle_position[1], particles[2].particle_position[1]}
           = {<<1, 8>>, <<7, 8>>}
    /\ props.serial[1] \in {Q(0), Q(1)}
    /\ RawMean(1) = <<1, 2>>

\* the kept count that worker p fed to the info dict
KeptCount(p) == halo_info[p][1]

\* the sum of the kept counts of the workers of rank below r
CountsBelow(r) == SumSeq([k \in 1..r |-> KeptCount(k - 1)])

\* the ids [my_first_id, my_first_id + count) of worker p
IdRange(p) == {g \in 0..(nhalos - 1) :
                  CountsBelow(p) <= g /\ g < CountsBelow(p) + KeptCount(p)}

\* What worker r holds when it has put its list together, before the sort;
\* kept and table are its list and its density peaks as _parse_halolist
\* left them.
AssembledRight(r, kept, table, first, list, peaks) ==
    /\ first = CountsBelow(r)
    /\ \A p, q \in Procs : p # q => IdRange(p) \cap IdRange(q) = {}
    /\ UNION {IdRange(p) : p \in Procs} = 0..(nhalos - 1)
    /\ Len(list) = nhalos
    /\ \A i \in 1..Len(list) :
           /\ (i - 1) \in IdRange(r) =>
                  /\ list[i].indices # None
                  /\ list[i].indices = kept[i - first].indices
           /\ (i - 1) \notin IdRange(r) => list[i].indices = None
           /\ list[i].id = i - 1
           /\ (i - 1) \in IdRange(list[i].owner)
    /\ DOMAIN peaks = {j + first : j \in DOMAIN table}
    /\ \A j \in DOMAIN table : peaks[j + first] = table[j]

\* C23: in GenericHaloFinder._join_halolists, before the sort, the offset
\* of worker r is the sum of the kept counts of the workers of lower rank;
\* the id ranges of the workers are disjoint and cover [0, N); the kept halos
\* of worker r lie at the list positions of its range, in their order, with
\* their density peaks keyed by the same offset; every other position holds
\* a placeholder without particle indices; the entry at each position is
\* marked with the worker whose range holds the position, on every worker.
C23_OffsetsAndRanges ==
    [][\A r \in Procs :
          (pc[r] = "info" /\ pc'[r] = "assembled") =>
              /\ AssembledRight(r, groups[r], max_dens[r], my_first_id'[r],
                                groups'[r], max_dens'[r])
              /\ \A q \in Procs :
                     pc'[q] = "assembled" =>
                         \A i \in 1..nhalos :
                             groups'[q][i].owner = groups'[r][i].owner]_vars

\* both workers have put their lists together; each kept one halo, worker 1
\* at offset 1 with a placeholder before it
C23_Witness ==
    /\ finder = "HOP"
    /\ \A r \in Procs : pc[r] = "assembled"
    /\ my_first_id[1] = 1
    /\ Len(groups[1]) >= 2
    /\ groups[1][1].indices = None
    /\ groups[1][1].owner = 0
    /\ groups[1][2].indices # None
    /\ groups[1][2].owner = 1
    /\ groups[0][2].indices = None
    /\ 1 \in DOMAIN max_dens[1]

\* the positions of the list of worker r, as the clusterer left it, of the
\* halos whose density peak lies in the box of the worker, bounds included
PeakInside(r) ==
    {i \in 1..Len(groups[r]) :
        \A d \in Dims :
            /\ BoxLE(r)[d] <= max_dens[r][groups[r][i].id][d + 1]
            /\ max_dens[r][groups[r][i].id][d + 1] <= BoxRE(r)[d]}

\* What _parse_halolist leaves on worker r: kept and table are the list and
\* the density peaks after it.
ParsedRight(r, kept, table) ==
    LET inside == SortedSeq(PeakInside(r))
    IN  /\ Len(kept) = Len(inside)
        /\ DOMAIN table = 0..(Len(inside) - 1)
        /\ \A j \in 1..Len(inside) :
               LET halo == groups[r][inside[j]]
               IN  /\ kept[j].id = j - 1
                   /\ kept[j].indices = halo.indices
                   /\ \A d \in Dims :
                          table[j - 1][d + 1] = max_dens[r][halo.id][d + 1]
                   /\ table[j - 1][1] * threshold_adjustment[r]
                          = max_dens[r][halo.id][1]

\* C24: _parse_halolist keeps a local halo if and only if its density peak
\* lies in [LE, RE], both bounds included, in all three dimensions; the
\* kept halos are numbered 0..k-1 in their order, each with its particle
\* indices and its peak location unchanged, and its peak density is that of
\* the clusterer divided by the threshold adjustment total_mass / sub_mass,
\* the factor by which the threshold handed to the clusterer was multiplied.
C24_KeptIffPeakInBox ==
    [][\A r \in Procs :
          (pc[r] = "found" /\ pc'[r] = "parsed" /\ finder = "HOP") =>
              /\ ParsedRight(r, groups'[r], max_dens'[r])
              /\ clusterer_threshold[r]
                     = Some(hop_threshold * threshold_adjustment[r])]_vars

\* worker 0 has kept the second of two halos, whose peak lies on the right
\* face of its box, and not the first; its threshold was doubled and the
\* peak density halved
C24_Witness ==
    /\ finder = "HOP"
    /\ pc[0] = "parsed"
    /\ cutdim = 1
    /\ Len(catalog) = 2
    /\ catalog[1].x = 3
    /\ catalog[2].x = 2
    /\ threshold_adjustment[0] = 2
    /\ clusterer_threshold[0] = Some(2 * hop_threshold)
    /\ Len(groups[0]) = 1
    /\ groups[0][1].id = 0
    /\ groups[0][1].indices = Some(2)
    /\ max_dens[0][0] = <<2 * catalog[2].mass, 2, 1, 1>>


(***************************************************************************)
(* The peak table after the final renumbering.  A halo is followed across  *)
(* the renumbering by what the renumbering leaves alone: its particle      *)
(* indices in the serial finder, its statistics in the parallel one.       *)
(***************************************************************************)
SameHalo(before, after) ==
    IF finder = "HOP"
    THEN before.indices # None /\ after.indices = before.indices
    ELSE after.size = before.size

Renumbers(r) == pc[r] # "joined" /\ pc'[r] = "joined" /\ groups[r] # <<>>

\* the lookups under the new id of every halo of worker r that had a record
RekeyedIn(r, old_groups, old_table, new_groups, new_table) ==
    \A i \in DOMAIN old_groups : \A j \in DOMAIN new_groups :
        (/\ SameHalo(old_groups[i], new_groups[j])
         /\ old_groups[i].id \in DOMAIN old_table)
        => /\ new_groups[j].id \in DOMAIN new_table
           /\ new_table[new_groups[j].id] = old_table[old_groups[i].id]

\* C25: after the final renumbering of GenericHaloFinder._join_halolists
\* and of parallelHF._join_halolists, every halo that had a density-peak
\* record finds that record under its new id, in the table of the collection
\* and in the table the halo itself refers to (h._max_dens[h.id]).
C25_PeakTableRekeyed ==
    [][\A r \in Procs : Renumbers(r) =>
          /\ RekeyedIn(r, groups[r], max_dens[r], groups'[r], max_dens'[r])
          /\ RekeyedIn(r, groups[r], max_dens[r], groups'[r],
                       halo_max_dens'[r])]_vars

\* what holds: the table of the collection in both finders, and the table of
\* the halos in GenericHaloFinder
C25_CollectionTableRekeyed ==
    [][\A r \in Procs : Renumbers(r) =>
          /\ RekeyedIn(r, groups[r], max_dens[r], groups'[r], max_dens'[r])
          /\ finder = "HOP" =>
                RekeyedIn(r, groups[r], max_dens[r], groups'[r],
                          halo_max_dens'[r])]_vars

\* a parallel HOP worker whose sort moved a halo, and a serial one likewise
C25_Witness ==
    \E r \in Procs :
        /\ finder = "parallelHOP" /\ pc[r] = "joined"
        /\ max_dens[r] # halo_max_dens[r]

C25_WitnessGeneric ==
    \E r \in Procs :
        /\ finder = "HOP" /\ pc[r] = "joined"
        /\ \E i \in DOMAIN groups[r] :
              groups[r][i].indices # None /\ groups[r][i].id # FirstId(r) + i - 1


(***************************************************************************)
(* HaloList._parse_output: the tag of each particle becomes the list of    *)
(* halos and the table of their density peaks.  Particles are numbered     *)
(* from 1 here, so group_indices holds 1 more than numpy's indices;        *)
(* offsets into the sorted arrays (cp, cp_c) count from 0 as in the code.  *)
(***************************************************************************)
TagValues == (-1)..MaxHalos
Densities == {1, 2}
PositionsX == {5, 6}

\* na.argsort(self.tags): quicksort, any order among particles of one tag
ArgSorts(t) ==
    {s \in [DOMAIN t -> DOMAIN t] :
        /\ \A p, q \in DOMAIN t : p # q => s[p] # s[q]
        /\ \A p \in 1..(Len(t) - 1) : t[s[p]] <= t[s[p + 1]]}

\* na.bincount(self.tags + 1): entry k counts the particles of tag k - 1
bincount(t) ==
    [k \in 0..(Max({t[p] : p \in DOMAIN t}) + 1) |->
        Cardinality({p \in DOMAIN t : t[p] + 1 = k})]

\* a[cp:cp_c]
Slice(a, cp, cp_c) == [k \in 1..(cp_c - cp) |-> a[cp + k]]

\* na.argmax: the first of the largest entries
argmax(a) ==
    CHOOSE k \in DOMAIN a :
        /\ \A j \in DOMAIN a : a[j] <= a[k]
        /\ \A j \in 1..(k - 1) : a[j] < a[k]

GroupIndices_from_start(grab_indices, cp, cp_c) == Slice(grab_indices, 0, cp_c)

GroupIndices(grab_indices, cp, cp_c) == Slice(grab_indices, cp, cp_c)

\* the loop over unique_ids, from offset cp on
RECURSIVE ParseTags(_, _, _, _, _, _)
ParseTags(unique_ids, cp, tag_counts, sort_indices, halos, table) ==
    IF unique_ids = <<>> THEN [groups |-> halos, max_dens |-> table]
    ELSE LET i == Head(unique_ids)
             cp_c == cp + tag_counts[i + 1]
             group_indices == GroupIndices(sort_indices, cp, cp_c)
             dens == Slice([p \in DOMAIN sort_indices |->
                               densities[sort_indices[p]]], cp, cp_c)
             md_i == argmax(dens)
             px == [k \in DOMAIN group_indices |->
                       particle_position_x[group_indices[k]]]
         IN  IF i = -1
             THEN ParseTags(Tail(unique_ids), cp_c, tag_counts, sort_indices,
                            halos, table)
             ELSE ParseTags(Tail(unique_ids), cp_c, tag_counts, sort_indices,
                            Append(halos, NewHalo(i, Some(group_indices))),
                            (i :> <<dens[md_i], px[md_i]>>) @@ table)

HaloList_parse_output ==
    /\ list_pc = "tagged"
    /\ \E sort_indices \in ArgSorts(list_tags) :
       \E out \in {ParseTags(unique(list_tags), 0, bincount(list_tags),
                             sort_indices, <<>>, <<>>)} :
           /\ list_groups' = out.groups
           /\ list_max_dens' = out.max_dens
    /\ list_pc' = "parsed"
    /\ UNCHANGED <<list_tags, densities, particle_position_x>>
    /\ UNCHANGED notListVars

InitList ==
    /\ \E n \in 1..MaxTags :
           /\ list_tags \in [1..n -> TagValues]
           /\ densities \in [1..n -> Densities]
           /\ particle_position_x \in [1..n -> PositionsX]
    /\ list_groups = <<>>
    /\ list_max_dens = <<>>
    /\ list_pc = "tagged"
    /\ IdleMerge /\ IdleCalls /\ IdleProps /\ IdleExit /\ IdlePad
    /\ IdleVirial /\ IdleDivide /\ IdlePolicy /\ IdleDump /\ IdlePeak

NextList == HaloList_parse_output

SpecList == InitList /\ [][NextList]_vars

TaggedWith(t) == {p \in DOMAIN list_tags : list_tags[p] = t}

ListParsed == list_pc = "parsed"

\* C26: HaloList._parse_output makes one halo per distinct tag other than
\* -1, in ascending tag order; the halo of tag t holds exactly the particles
\* tagged t, also when tag values are skipped; its peak record is the
\* density and the position of one of its particles of largest density.
C26_OneHaloPerTag ==
    ListParsed =>
        /\ Len(list_groups) =
               Cardinality({list_tags[p] : p \in DOMAIN list_tags} \ {-1})
        /\ \A k \in 1..(Len(list_groups) - 1) :
               list_groups[k].id < list_groups[k + 1].id
        /\ \A k \in DOMAIN list_groups :
               \A members \in {list_groups[k].indices[1]} :
                   /\ list_groups[k].id # -1
                   /\ {members[j] : j \in DOMAIN members} =
                          TaggedWith(list_groups[k].id)
                   /\ Len(members) = Cardinality(TaggedWith(list_groups[k].id))
                   /\ members # <<>>
                   /\ list_groups[k].id \in DOMAIN list_max_dens
                   /\ \E p \in TaggedWith(list_groups[k].id) :
                          /\ \A q \in TaggedWith(list_groups[k].id) :
                                 densities[q] <= densities[p]
                          /\ list_max_dens[list_groups[k].id] =
                                 <<densities[p], particle_position_x[p]>>
        /\ DOMAIN list_max_dens = {list_groups[k].id : k \in DOMAIN list_groups}

\* tags that skip a value, next to unassigned particles
C26_Witness ==
    /\ ListParsed
    /\ \E k \in DOMAIN list_groups :
          /\ list_groups[k].id > 0
          /\ TaggedWith(list_groups[k].id - 1) = {}
    /\ Len(list_groups) >= 1

C26_WitnessTies ==
    /\ ListParsed
    /\ \E p, q \in DOMAIN list_tags :
          /\ p # q /\ list_tags[p] = list_tags[q] /\ list_tags[p] # -1
          /\ densities[p] = densities[q]
          /\ particle_position_x[p] # particle_position_x[q]
          /\ list_max_dens[list_tags[p]][2] = particle_position_x[q]


\* the entry that _parse_output of worker r left at index g
EntryOf(r, g) == groups[r][g + 1]

\* the reduced statistics of group g, as the halo of g is to carry them
StatisticsOf(e, g) ==
    /\ e.id = g
    /\ e.size = Some(group_sizes(g))
    /\ e.CoM = Some(CoMRow(g))
    /\ e.max_dens_point = Some(max_dens_point(g))
    /\ e.group_total_mass = Some(Tot_M[g + 1])
    /\ e.max_radius = Some(max_radius(g))
    /\ e.bulk_vel = Some(bulk_vel(g))
    /\ e.rms_vel = Some(rms_vel(g))
    /\ e.tasks = Some(halo_taskmap(g))

\* parallelHOPHalo.maximum_density with a precomputed peak
par_maximum_density(e) == e.max_dens_point[1][1]

\* C27: after parallelHOPHaloList._parse_output, on every worker the entry
\* at every index g below group_count carries the reduced statistics of
\* halo g itself, be it owned, a placeholder before a local id or one after
\* the last local id, so that maximum_density() of halo g is the peak
\* density of g on every worker.
C27_EntriesCarryOwnStatistics ==
    \A r \in Procs :
        (finder = "parallelHOP" /\ pc[r] = "parsed") =>
            \A g \in Groups :
                /\ StatisticsOf(EntryOf(r, g), g)
                /\ par_maximum_density(EntryOf(r, g)) = max_dens_point(g)[1]

\* what holds: owned entries and the placeholders before a local id
C27_OwnedAndGapEntries ==
    \A r \in Procs :
        (finder = "parallelHOP" /\ pc[r] = "parsed") =>
            \A g \in Groups :
                (\E p \in DOMAIN tags[r][1] : tags[r][1][p] >= g) =>
                    StatisticsOf(EntryOf(r, g), g)

C27_WitnessGap ==
    \E r \in Procs :
        /\ finder = "parallelHOP" /\ pc[r] = "parsed"
        /\ \E g \in Groups :
              /\ EntryOf(r, g).indices = None
              /\ \E p \in DOMAIN tags[r][1] : tags[r][1][p] > g


\* C28: the bulk velocity and the RMS velocity that _run_finder computes
\* ahead, and that parallelHOPHalo.bulk_velocity / rms_velocity return as
\* stored, equal what Halo.bulk_velocity and Halo.rms_velocity compute from
\* the masses and velocities of the same particles.
C28_PrecomputedEqualsDirect ==
    props.op \in {"precomputed_bulk_velocity", "precomputed_rms_velocity"} =>
        \A r \in Procs : props.parallel[r + 1] = props.serial

\* what holds: the bulk velocity, and the RMS velocity of a halo at rest or
\* of particles of unit mass
C28_BulkVelocityAgrees ==
    /\ props.op = "precomputed_bulk_velocity" =>
           \A r \in Procs : props.parallel[r + 1] = props.serial
    /\ (/\ props.op = "precomputed_rms_velocity"
        /\ \/ \A i \in DOMAIN particles : particles[i].ParticleMassMsun = Q(1)
           \/ Halo_bulk_velocity(SerialHalo) = <<Q(0), Q(0), Q(0)>>) =>
           \A r \in Procs : props.parallel[r + 1] = props.serial

C28_WitnessBulk ==
    /\ props.op = "precomputed_bulk_velocity"
    /\ props.serial # <<Q(0), Q(0), Q(0)>>
    /\ \E i \in DOMAIN particles : particles[i].ParticleMassMsun # Q(1)
    /\ \E i, j \in DOMAIN particles : where[i] # where[j]

C28_WitnessRms ==
    /\ props.op = "precomputed_rms_velocity"
    /\ props.serial # Q(0)
    /\ \A r \in Procs : props.parallel[r + 1] = props.serial
    /\ \E i, j \in DOMAIN particles : where[i] # where[j]


AllJoined == finder = "HOP" /\ \A r \in Procs : pc[r] = "joined"

\* C29: in a distributed GenericHaloFinder._join_halolists every worker
\* makes the same comparisons in the same order during the sort, with the
\* same collective total_mass / center_of_mass calls, and ends with the same
\* permutation: after the renumbering every id denotes the same halo, with
\* the same owner, on every worker.
C29_SameComparisonsSamePermutation ==
    AllJoined =>
        \A r1, r2 \in Procs :
            /\ compared[r1] = compared[r2]
            /\ Len(groups[r1]) = Len(groups[r2])
            /\ \A i \in DOMAIN groups[r1] :
                   /\ groups[r1][i].id = i - 1
                   /\ groups[r1][i].owner = groups[r2][i].owner
                   /\ groups[r1][i].indices # None
                          <=> groups[r1][i].owner = r1
                   /\ HaloAt(r1, i) = HaloAt(r2, i)

\* two workers that own a halo each, and a sort that compared them, called
\* center_of_mass on a tie of the masses, and moved a halo
C29_Witness ==
    /\ AllJoined
    /\ \A r \in Procs : \E i \in DOMAIN groups[r] : groups[r][i].indices # None
    /\ \E k \in DOMAIN compared[0] :
          /\ Len(compared[0][k].calls) = 4
          /\ compared[0][k].result > 0


(***************************************************************************)
(* parallelHOPHalo.maximum_density and maximum_density_location of a halo  *)
(* that carries no precomputed peak: every worker reads the record its own *)
(* table holds under the id of the halo.                                   *)
(***************************************************************************)
PeakDensities == 1..3
PeakLocations == {<<1, 2, 3>>, <<4, 5, 6>>, <<2, 0, 4>>}
PeakRecords ==
    {<<Q(d), Q(loc[1]), Q(loc[2]), Q(loc[3])>> :
        d \in PeakDensities, loc \in PeakLocations}

\* max = self._mpi_allmax(self._max_dens[self.id][0])
peak_maximum_density ==
    mpi_allmax([s \in Slots |-> local_max_dens[s - 1][1]])

\* the value a worker hands to the reduction
my_peak_location(r) ==
    IF local_max_dens[r][1] = peak_maximum_density
    THEN [d \in Dims |-> local_max_dens[r][d + 1]]
    ELSE <<Q(0), Q(0), Q(0)>>

\* value = self._mpi_allsum(value)
peak_maximum_density_location ==
    [d \in Dims |-> mpi_allsum([s \in Slots |-> my_peak_location(s - 1)[d]])]

MaximumDensity ==
    /\ peak_pc = "ready"
    /\ returned' = [r \in Procs |-> peak_maximum_density]
    /\ peak_pc' = "maximum_density"
    /\ UNCHANGED local_max_dens
    /\ UNCHANGED notPeakVars

MaximumDensityLocation ==
    /\ peak_pc = "ready"
    /\ returned' = [r \in Procs |-> peak_maximum_density_location]
    /\ peak_pc' = "maximum_density_location"
    /\ UNCHANGED local_max_dens
    /\ UNCHANGED notPeakVars

InitPeak ==
    /\ local_max_dens \in [Procs -> PeakRecords]
    /\ returned = <<>>
    /\ peak_pc = "ready"
    /\ IdleMerge /\ IdleCalls /\ IdleProps /\ IdleExit /\ IdlePad
    /\ IdleVirial /\ IdleDivide /\ IdlePolicy /\ IdleDump /\ IdleList

NextPeak == MaximumDensity \/ MaximumDensityLocation

SpecPeak == InitPeak /\ [][NextPeak]_vars

\* the workers whose local peak is the densest of all
PeakHolders ==
    {r \in Procs :
        \A s \in Procs : ~Less(local_max_dens[r][1], local_max_dens[s][1])}

LocationOn(r) == [d \in Dims |-> local_max_dens[r][d + 1]]

\* C30: without a precomputed peak, parallelHOPHalo.maximum_density_location
\* returns on every worker the location of the densest particle of the
\* halo, also when the local peak of more than one worker is the global
\* maximum; a worker whose local peak is lower hands in the zero vector.
C30_LocationOfGlobalPeak ==
    peak_pc = "maximum_density_location" =>
        /\ \A r \in Procs : \E s \in PeakHolders : returned[r] = LocationOn(s)
        /\ \A r \in Procs \ PeakHolders : my_peak_location(r) = <<Q(0), Q(0), Q(0)>>

\* what holds: the location when one worker alone holds the peak, and the
\* density in every case
C30_LocationOfSinglePeak ==
    /\ (peak_pc = "maximum_density_location" /\ Cardinality(PeakHolders) = 1) =>
           \A r \in Procs : \A s \in PeakHolders : returned[r] = LocationOn(s)
    /\ peak_pc = "maximum_density" =>
           \A r \in Procs : \A s \in PeakHolders :
               returned[r] = local_max_dens[s][1]
    /\ peak_pc # "ready" =>
           \A r \in Procs \ PeakHolders : my_peak_location(r) = <<Q(0), Q(0), Q(0)>>

C30_WitnessSingle ==
    /\ peak_pc = "maximum_density_location"
    /\ Cardinality(PeakHolders) = 1
    /\ PeakHolders # Procs

\* the peak particle held by two workers
C30_WitnessShared ==
    /\ peak_pc = "maximum_density_location"
    /\ \E r, s \in PeakHolders : r # s /\ LocationOn(r) = LocationOn(s)

=============================================================================
